---- MODULE Spec2Model ----
(***************************************************************************)
(* free-tms: the project-to-employee matching page (ProjectMatching.tsx)   *)
(* and the matching engine it calls through                                *)
(* POST /projects/{id}/match-employees; the skills card of the employee    *)
(* profile (EmployeeProfile.tsx); the auth store (authStore.ts) behind the *)
(* response interceptor of lib/axios; the skill filter and the             *)
(* add-employee modal of the employee list (Employees.tsx); the project    *)
(* form (ProjectForm.tsx); skill deletion on the Skills page; the members  *)
(* card of ProjectDetail; adding the selected candidates from the matching *)
(* page. Each has its own specification.                                   *)
(*                                                                         *)
(* JavaScript numbers are modelled as exact rationals <<n, d>> in lowest   *)
(* terms (d > 0); floating-point rounding is not modelled.                 *)
(***************************************************************************)
EXTENDS Integers, Sequences, FiniteSets, TLC

VARIABLES
    user,            \* useAuthStore user: its role, or "none" when no user is loaded
    location,        \* router location of the browser
    mounted,         \* the mount effect of ProjectMatching has run
    loading,         \* useState loading
    matchingResult,  \* useState matchingResult: None or a MatchingResult
    weights,         \* useState weights: [skill, experience, availability]
    request,         \* the match-employees POST in flight: None or its query
    pool,            \* the candidate pool the stored result was computed from
    totalSign,       \* the local `total` of the last handleWeightChange call: its sign
    moved,           \* a slider was moved after the displayed result's request was sent
    probe,           \* input and outcome of the pure function SpecFn applies
    \* EmployeeProfile.tsx
    currentUser,       \* useAuthStore user, as seen by the profile: "self", "admin", "other"
    employeeSkills,    \* useState employeeSkills: the EmployeeSkill records shown
    showSkillModal,    \* useState showSkillModal
    selectedSkillId,   \* useState selectedSkillId: a skill id, or 0 for null
    proficiencyLevel,  \* useState proficiencyLevel
    yearsOfExperience, \* useState yearsOfExperience
    skillRequests,     \* the skill requests of the profile page in flight
    skillRecords,      \* the EmployeeSkill records the backend holds for the employee
    saving,            \* useState saving
    refused,           \* handleSubmit has returned at its canEdit check
    \* authStore.ts (its `user` is the variable user above)
    access_token,      \* localStorage item access_token: a token, or 0 when absent
    isAuthenticated,   \* store field isAuthenticated
    isLoading,         \* store field isLoading
    calls,             \* the login and fetchCurrentUser calls awaiting a response
    settled,           \* what the last step of the store did: None, or its event
    \* Employees.tsx
    employees,         \* useState employees: the ids of the employees listed
    selectedSkillIds,  \* useState selectedSkillIds
    employeesLoading,  \* useState loading of the Employees page
    employeeRequests,  \* the GETs of the Employees page in flight
    requestFailed,     \* a GET of the Employees page has failed
    toggles,           \* the last two calls of toggleSkillFilter: skill, selection before, request issued
    \* ProjectForm.tsx (its user is the variable user above)
    isEditMode,        \* the route has an id: /projects/:id/edit
    formMounted,       \* the mount effect of ProjectForm has run
    formLoading,       \* useState loading of ProjectForm
    formError,         \* useState error of ProjectForm: "" for null
    submitting,        \* useState submitting
    errors,            \* useState errors: the fields with a validation message
    formData,          \* useState formData: the validated fields
    formSkills,        \* useState skills: the ids of the skill master loaded
    selectedSkills,    \* useState selectedSkills: skill id and importance level
    formRequests,      \* the requests of ProjectForm in flight
    projectSkills,     \* required_skills of the project the backend holds
    untouched,         \* the skill section was not used since the page opened
    projectLoaded,     \* the project fetch of the edit mode has succeeded
    \* Employees.tsx, the add-employee modal (its user is the variable user above)
    showAddModal,      \* useState showAddModal
    addFormData,       \* useState formData: name, email and password as character arrays
    formErrors,        \* useState formErrors: field and message
    addSubmitting,     \* useState submitting of the Employees page
    addCall,           \* where the submit handler waits: "idle", "post" or "fetch"
    registered,        \* number of employees the backend has created
    addOutcome,        \* what the last submit of the modal did: None, or its record
    \* Skills page (its user is the variable user above)
    skillList,         \* useState skills of the Skills page: the ids listed
    skillsLoading,     \* useState loading of the Skills page
    skillStore,        \* the skills the backend holds
    skillCalls,        \* the handler calls of the Skills page awaiting a response
    alertShown,        \* the message of the last alert(): "" when none was shown
    deleteOutcome,     \* what the last step of handleDeleteSkill did: None, or its record
    \* ProjectDetail page (its user is the variable user above)
    members,             \* project.members of useState project: member id and employee id
    memberStore,         \* the members the backend holds for the project
    memberCalls,         \* handleAddMember / handleRemoveMember calls awaiting a response
    showAddMemberDialog, \* useState showAddMemberDialog
    newMember,           \* newMember.employee_id: an employee id, or 0 for ""
    nextMemberId,        \* the id the backend gives to the next member
    memberOps,           \* the members added and removed by answered calls, and whether one failed
    \* ProjectMatching.tsx, the selection of candidates
    selectedEmployees,   \* useState selectedEmployees: the ids in insertion order
    selectionCalls,      \* handleAddSelectedMembers calls awaiting the answer to a POST
    projectMembers,      \* the employees the backend holds as members of the project
    selectionOutcome     \* how the last call of handleAddSelectedMembers returned: None, or its record

\* EmployeeProfile state, its requests in flight and the records behind them
profileVars == <<currentUser, employeeSkills, showSkillModal, selectedSkillId,
                 proficiencyLevel, yearsOfExperience, skillRequests, skillRecords,
                 saving, refused>>

\* the state outside the matching page
\* the auth store without its user, localStorage and the calls in flight
authVars == <<access_token, isAuthenticated, isLoading, calls, settled>>

\* Employees state and its requests in flight
employeesVars == <<employees, selectedSkillIds, employeesLoading, employeeRequests,
                   requestFailed, toggles>>

\* ProjectForm state, its requests in flight and the project behind them
formPageVars == <<isEditMode, formMounted, formLoading, formError, submitting, errors,
                  formData, formSkills, selectedSkills, formRequests, projectSkills,
                  untouched, projectLoaded>>

\* the add-employee modal of the Employees page
addVars == <<showAddModal, addFormData, formErrors, addSubmitting, addCall, registered,
             addOutcome>>

\* the pages added after the first four
\* the Skills page, its calls in flight and the skills behind them
skillsPageVars == <<skillList, skillsLoading, skillStore, skillCalls, alertShown,
                    deleteOutcome>>

\* the members card of ProjectDetail, its calls in flight and the members behind them
detailVars == <<members, memberStore, memberCalls, showAddMemberDialog, newMember,
                nextMemberId, memberOps>>

\* the selection of the matching page, its calls in flight and the members behind them
candidateVars == <<selectedEmployees, selectionCalls, projectMembers, selectionOutcome>>

otherPagesVars == <<addVars, skillsPageVars, detailVars, candidateVars>>

restVars == <<profileVars, authVars, employeesVars, formPageVars, otherPagesVars>>

vars == <<user, location, mounted, loading, matchingResult, weights,
          request, pool, totalSign, moved, probe, restVars>>

pageVars == <<user, location, mounted, loading, matchingResult, weights,
              request, pool, totalSign, moved>>

\* null: no result stored, no request in flight
None == [none |-> TRUE]

\* user === null in the auth store
NoUser == "none"

----------------------------------------------------------------------------
(* Bounds *)

\* number of skills of the skill master offered to the profile page
MaxProfileSkills == 1

\* largest denominator of a weight that a slider move may store
MaxDen == 5

\* largest candidate pool the collaborator hands to one matching run
MaxPool == 2

\* the pure functions are applied to scores k / ScoreDen, 0 <= k <= 100 * ScoreDen
ScoreDen == 2

\* the pure functions are applied to weights k / WeightGrid, 0 <= k <= WeightGrid
WeightGrid == 3

\* the skills a project may require in the skill-compatibility cases
MaxSkills == 2

----------------------------------------------------------------------------
(* Exact rational arithmetic *)

Abs(n) == IF n < 0 THEN -n ELSE n

RECURSIVE GCD(_, _)
GCD(a, b) == IF b = 0 THEN a ELSE GCD(b, a % b)

\* n / d in lowest terms, d # 0
Rat(n, d) ==
    LET g == GCD(Abs(n), Abs(d))
        s == IF d < 0 THEN -1 ELSE 1
    IN  <<(s * n) \div g, (s * d) \div g>>

RInt(n) == <<n, 1>>
RAdd(x, y) == Rat(x[1] * y[2] + y[1] * x[2], x[2] * y[2])
RMul(x, y) == Rat(x[1] * y[1], x[2] * y[2])
RDiv(x, y) == Rat(x[1] * y[2], x[2] * y[1])
RLe(x, y) == x[1] * y[2] <= y[1] * x[2]
RLt(x, y) == x[1] * y[2] < y[1] * x[2]
RGe(x, y) == RLe(y, x)
RGt(x, y) == RLt(y, x)
RNeg(x) == <<-x[1], x[2]>>
RSub(x, y) == RAdd(x, RNeg(y))

----------------------------------------------------------------------------
(* ProjectMatching.tsx: the weight sliders *)

\* <Route path="/projects/:id/matching">, navigate("/projects")
MatchingPath == "/projects/:id/matching"
ProjectsPath == "/projects"

WeightTypes == {"skill", "experience", "availability"}

\* useState initial value of weights
InitialWeights ==
    [skill |-> Rat(5, 10), experience |-> Rat(3, 10), availability |-> Rat(2, 10)]

\* <Slider max={1} step={0.1}>: the values a slider reports
SliderMax == 1
SliderStep == Rat(1, 10)
SliderValues ==
    {RMul(RInt(k), SliderStep) : k \in 0..RDiv(RInt(SliderMax), SliderStep)[1]}

WeightSum(w) == RAdd(RAdd(w.skill, w.experience), w.availability)

\* a substitution that stores the slider's change instead of its value
SubstituteWeight_Delta(w, type, value) == [w EXCEPT ![type] = RSub(value, w[type])]

\* const newWeights = { ...weights, [type]: value[0] }
SubstituteWeight(w, type, value) == [w EXCEPT ![type] = value]

\* handleWeightChange that leaves the availability weight undivided
NormalizedWeights_AvailabilityUndivided(w, type, value) ==
    LET newWeights == SubstituteWeight(w, type, value)
        t == WeightSum(newWeights)
    IN  IF RGt(t, RInt(0))
        THEN [skill        |-> RDiv(newWeights.skill, t),
              experience   |-> RDiv(newWeights.experience, t),
              availability |-> newWeights.availability]
        ELSE newWeights

\* handleWeightChange whose total leaves the availability weight out
NormalizedWeights_TotalOfTwo(w, type, value) ==
    LET newWeights == SubstituteWeight(w, type, value)
        t == RAdd(newWeights.skill, newWeights.experience)
    IN  IF RGt(t, RInt(0))
        THEN [skill        |-> RDiv(newWeights.skill, t),
              experience   |-> RDiv(newWeights.experience, t),
              availability |-> RDiv(newWeights.availability, t)]
        ELSE newWeights

\* the body of handleWeightChange up to setWeights
NormalizedWeights(w, type, value) ==
    LET newWeights == SubstituteWeight(w, type, value)
        t == WeightSum(newWeights)
    IN  IF RGt(t, RInt(0))
        THEN [skill        |-> RDiv(newWeights.skill, t),
              experience   |-> RDiv(newWeights.experience, t),
              availability |-> RDiv(newWeights.availability, t)]
        ELSE newWeights

WithinDen(w) == \A t \in WeightTypes : w[t][2] <= MaxDen

----------------------------------------------------------------------------
(* The matching engine behind POST /projects/{id}/match-employees *)

\* default MatchingWeights
DefaultWeights ==
    [skill |-> Rat(5, 10), experience |-> Rat(3, 10), availability |-> Rat(2, 10)]

\* skill-match of a project without required skills
NeutralSkillMatch == 100

\* tier thresholds of the ResultCategorizer
ExcellentMin == 70
GoodMin == 50
FairMin == 30

Tiers == <<"excellent", "good", "fair", "poor">>

\* a weight below zero is a validation error, rejected before normalisation
ValidWeights(q) == \A t \in WeightTypes : RGe(q[t], RInt(0))

\* a WeightNormalizer that applies positive weights as they come
NormalizeWeights_Raw(q) ==
    LET sum == WeightSum(q)
    IN  IF RGt(sum, RInt(0)) THEN q ELSE DefaultWeights

\* a WeightNormalizer without the default: all-zero weights are applied as they are
NormalizeWeights_NoDefault(q) ==
    LET sum == WeightSum(q)
    IN  IF RGt(sum, RInt(0))
        THEN [t \in WeightTypes |-> RDiv(q[t], sum)]
        ELSE q

\* WeightNormalizer
NormalizeWeights(q) ==
    LET sum == WeightSum(q)
    IN  IF RGt(sum, RInt(0))
        THEN [t \in WeightTypes |-> RDiv(q[t], sum)]
        ELSE DefaultWeights

\* a per-skill compatibility that is not bounded at 100
SkillContribution_Unbounded(level, required) ==
    IF level = 0 THEN RInt(0) ELSE Rat(100 * level, required)

\* SkillCompatibility, one required skill: level 0 stands for "no record";
\* the required level of a ProjectSkillRequirement is its importance level
SkillContribution(level, required) ==
    IF level = 0 THEN RInt(0)
    ELSE IF level >= required THEN RInt(100)
    ELSE Rat(100 * level, required)

RECURSIVE WeightedContributions(_, _)
WeightedContributions(skills, reqs) ==
    IF reqs = <<>> THEN RInt(0)
    ELSE RAdd(RMul(RInt(Head(reqs).importance_level),
                   SkillContribution(skills[Head(reqs).skill],
                                     Head(reqs).importance_level)),
              WeightedContributions(skills, Tail(reqs)))

RECURSIVE ImportanceSum(_)
ImportanceSum(reqs) ==
    IF reqs = <<>> THEN 0
    ELSE Head(reqs).importance_level + ImportanceSum(Tail(reqs))

\* SkillCompatibility: the importance-weighted average over the required skills
SkillMatch(skills, reqs) ==
    IF reqs = <<>> THEN RInt(NeutralSkillMatch)
    ELSE RDiv(WeightedContributions(skills, reqs), RInt(ImportanceSum(reqs)))

\* the matched_skills detail: the required skills the employee has a record for
MatchedSkills(skills, reqs) ==
    SelectSeq([i \in 1..Len(reqs) |->
                  [name |-> reqs[i].skill,
                   employee_level |-> skills[reqs[i].skill],
                   required_level |-> reqs[i].importance_level]],
              LAMBDA m : m.employee_level > 0)

\* CandidateScorer
TotalScore(w, skill_match, experience, availability) ==
    RAdd(RAdd(RMul(w.skill, skill_match), RMul(w.experience, experience)),
         RMul(w.availability, availability))

\* ResultCategorizer: the tier of a total score
Tier(score) ==
    IF RGe(score, RInt(ExcellentMin)) THEN "excellent"
    ELSE IF RGe(score, RInt(GoodMin)) THEN "good"
    ELSE IF RGe(score, RInt(FairMin)) THEN "fair"
    ELSE "poor"

\* ResultCategorizer: descending total score, ties by ascending employee id
RanksBefore(c, d) ==
    \/ RGt(c.scores.total, d.scores.total)
    \/ c.scores.total = d.scores.total /\ c.employee < d.employee

RECURSIVE SortCandidates(_)
SortCandidates(S) ==
    IF S = {} THEN <<>>
    ELSE LET first == CHOOSE c \in S : \A d \in S \ {c} : RanksBefore(c, d)
         IN  <<first>> \o SortCandidates(S \ {first})

\* the employee records the collaborator resolves: per employee the proficiency
\* level per skill (0: no record), the experience and the availability percentage
EmployeeData ==
    << [skills |-> <<2>>, experience |-> 0,   availability |-> 100],
       [skills |-> <<0>>, experience |-> 100, availability |-> 0],
       [skills |-> <<1>>, experience |-> 0,   availability |-> 0] >>

Employees == DOMAIN EmployeeData

\* the target project: its ProjectSkillRequirements
Project ==
    [id |-> 1, required_skills |-> << [skill |-> 1, importance_level |-> 2] >>]

\* the candidate pools the collaborator may hand over
CandidatePools == {P \in SUBSET Employees : Cardinality(P) <= MaxPool}

\* CandidateScorer: the Candidate record of one employee
Candidate(e, project, w) ==
    LET sm == SkillMatch(EmployeeData[e].skills, project.required_skills)
        ex == RInt(EmployeeData[e].experience)
        av == RInt(EmployeeData[e].availability)
    IN  [employee |-> e,
         scores |-> [total |-> TotalScore(w, sm, ex, av),
                     skill_match |-> sm,
                     experience |-> ex,
                     availability |-> av],
         matched_skills |-> MatchedSkills(EmployeeData[e].skills, project.required_skills)]

\* ResultCategorizer: partition into tiers, sort each, count
Categorize(project, candidates, w) ==
    LET list(t) == SortCandidates({c \in candidates : Tier(c.scores.total) = t})
    IN  [project |-> project.id,
         summary |-> [total_candidates   |-> Cardinality(candidates),
                      excellent_matches  |-> Len(list("excellent")),
                      good_matches       |-> Len(list("good")),
                      fair_matches       |-> Len(list("fair")),
                      poor_matches       |-> Len(list("poor"))],
         categorized_recommendations |->
                     [excellent |-> list("excellent"),
                      good      |-> list("good"),
                      fair      |-> list("fair"),
                      poor      |-> list("poor")],
         weights_used |-> w]

\* an engine that takes an empty candidate pool for a validation error
RunEngine_RequiresCandidates(project, candidate_pool, q) ==
    IF ~ValidWeights(q) \/ candidate_pool = {} THEN [error |-> "validation"]
    ELSE LET w == NormalizeWeights(q)
         IN  Categorize(project, {Candidate(e, project, w) : e \in candidate_pool}, w)

\* one invocation of the engine: a MatchingResult, or a validation error
RunEngine(project, candidate_pool, q) ==
    IF ~ValidWeights(q) THEN [error |-> "validation"]
    ELSE LET w == NormalizeWeights(q)
         IN  Categorize(project, {Candidate(e, project, w) : e \in candidate_pool}, w)

IsError(r) == "error" \in DOMAIN r

----------------------------------------------------------------------------
(* ProjectMatching.tsx: the page *)

\* a canMatch that any loaded user passes
canMatch_AnyUser == user # NoUser

\* const canMatch = isAdmin || isManager
canMatch == user = "admin" \/ user = "manager"

\* the query string of the match-employees POST
MatchQuery(w) ==
    [skill |-> w.skill, experience |-> w.experience, availability |-> w.availability]

\* runMatching up to the await: setLoading(true); api.post(...)
StartMatching ==
    /\ loading' = TRUE
    /\ request' = MatchQuery(weights)

\* useEffect(() => { if (!canMatch) { navigate("/projects"); return } if (id) runMatching() }, [id])
Mount ==
    /\ ~mounted
    /\ mounted' = TRUE
    /\ IF ~canMatch
       THEN /\ location' = ProjectsPath
            /\ UNCHANGED <<loading, request>>
       ELSE /\ StartMatching
            /\ UNCHANGED location
    /\ UNCHANGED <<user, matchingResult, weights, pool, totalSign, moved, probe>>
    /\ UNCHANGED restVars

\* <Button onClick={runMatching}>: rendered below the two early returns
runMatching ==
    /\ mounted /\ location = MatchingPath
    /\ ~loading /\ matchingResult # None
    /\ StartMatching
    /\ UNCHANGED <<user, location, mounted, matchingResult, weights, pool, totalSign, moved, probe>>
    /\ UNCHANGED restVars

\* runMatching after the await: the engine answers with a MatchingResult;
\* setMatchingResult(response.data); finally setLoading(false)
MatchingSucceeds ==
    /\ request # None
    /\ \E P \in CandidatePools :
          LET r == RunEngine(Project, P, request)
          IN  /\ ~IsError(r)
              /\ matchingResult' = r
              /\ pool' = P
    /\ loading' = FALSE
    /\ request' = None
    /\ moved' = FALSE
    /\ UNCHANGED <<user, location, mounted, weights, totalSign, probe>>
    /\ UNCHANGED restVars

\* runMatching after the await: the POST rejects (validation error, collaborator
\* failure, network); catch { alert(...) } finally setLoading(false)
MatchingFails ==
    /\ request # None
    /\ loading' = FALSE
    /\ request' = None
    /\ UNCHANGED <<user, location, mounted, matchingResult, weights, pool, totalSign, moved, probe>>
    /\ UNCHANGED restVars

\* getScoreColor
getScoreColor(score) ==
    IF RGe(score, RInt(70)) THEN "text-green-600"
    ELSE IF RGe(score, RInt(50)) THEN "text-yellow-600"
    ELSE IF RGe(score, RInt(30)) THEN "text-orange-600"
    ELSE "text-red-600"

\* a getScoreBadge whose first bound is exclusive
getScoreBadge_Exclusive(score) ==
    IF RGt(score, RInt(70)) THEN "bg-green-100 text-green-800"
    ELSE IF RGe(score, RInt(50)) THEN "bg-yellow-100 text-yellow-800"
    ELSE IF RGe(score, RInt(30)) THEN "bg-orange-100 text-orange-800"
    ELSE "bg-red-100 text-red-800"

\* getScoreBadge: the class of the badge
getScoreBadge(score) ==
    IF RGe(score, RInt(70)) THEN "bg-green-100 text-green-800"
    ELSE IF RGe(score, RInt(50)) THEN "bg-yellow-100 text-yellow-800"
    ELSE IF RGe(score, RInt(30)) THEN "bg-orange-100 text-orange-800"
    ELSE "bg-red-100 text-red-800"

\* the tier a colour or a badge class stands for
ColorTier(c) ==
    CASE c = "text-green-600"  -> "excellent"
      [] c = "text-yellow-600" -> "good"
      [] c = "text-orange-600" -> "fair"
      [] c = "text-red-600"    -> "poor"

BadgeTier(b) ==
    CASE b = "bg-green-100 text-green-800"   -> "excellent"
      [] b = "bg-yellow-100 text-yellow-800" -> "good"
      [] b = "bg-orange-100 text-orange-800" -> "fair"
      [] b = "bg-red-100 text-red-800"       -> "poor"

\* the page shows the result once loading is over and a result is stored
Displayed == mounted /\ location = MatchingPath /\ ~loading /\ matchingResult # None

\* an "all" tab that lists the tiers from the bottom up
AllTab_PoorFirst(r) ==
    r.categorized_recommendations.poor \o r.categorized_recommendations.fair
        \o r.categorized_recommendations.good \o r.categorized_recommendations.excellent

\* an "all" tab that leaves the poor list out
AllTab_WithoutPoor(r) ==
    r.categorized_recommendations.excellent \o r.categorized_recommendations.good
        \o r.categorized_recommendations.fair

\* <TabsContent value="all">: the four lists spread into one array
AllTab(r) ==
    r.categorized_recommendations.excellent \o r.categorized_recommendations.good
        \o r.categorized_recommendations.fair \o r.categorized_recommendations.poor

\* <TabsTrigger value="all">: the count in the label of the tab
AllTabCount(r) == r.summary.total_candidates

\* <Label>: the three weights shown above the sliders
ShownWeights == weights

\* const handleWeightChange = (type, value) => { ... setWeights(newWeights) }
\* The sliders are rendered only below the two early returns of the component
\* (loading, !matchingResult).
handleWeightChange(type, value) ==
    /\ mounted /\ location = MatchingPath
    /\ ~loading /\ matchingResult # None
    /\ LET nw == NormalizedWeights(weights, type, value)
       IN  /\ WithinDen(nw)
           /\ weights' = nw
    /\ totalSign' = IF RGt(WeightSum(SubstituteWeight(weights, type, value)), RInt(0))
                    THEN "positive" ELSE "zero"
    /\ moved' = TRUE
    /\ UNCHANGED <<user, location, mounted, loading, matchingResult, request, pool, probe>>
    /\ UNCHANGED restVars

----------------------------------------------------------------------------
(* Initial state of the pages and stores outside the matching page *)

\* EmployeeProfile after its mount effect has loaded an employee without skills
ProfileInit ==
    /\ currentUser \in {"self", "admin", "other"}
    /\ skillRecords \in {{}, {[skill_id |-> 1, proficiency_level |-> 3,
                                years_of_experience |-> 1]}}
    /\ employeeSkills = skillRecords
    /\ showSkillModal = FALSE
    /\ selectedSkillId = 0
    /\ proficiencyLevel = 3
    /\ yearsOfExperience = 1
    /\ skillRequests = <<>>
    /\ saving = FALSE
    /\ refused = FALSE

\* localStorage.getItem('access_token') === null
NoToken == 0

\* number of distinct access tokens the backend issues
MaxTokens == 2

Tokens == 1..MaxTokens

\* the store as created; localStorage may hold the token of an earlier visit
AuthInit ==
    /\ access_token \in {NoToken} \cup Tokens
    /\ isAuthenticated = FALSE
    /\ isLoading = TRUE
    /\ calls = <<>>
    /\ settled = None

\* the store once fetchCurrentUser has loaded the user of the page, no call pending
AuthLoaded ==
    /\ access_token = (IF user = NoUser THEN NoToken ELSE 1)
    /\ isAuthenticated = (user # NoUser)
    /\ isLoading = FALSE
    /\ calls = <<>>
    /\ settled = None

\* the profile page is not open
ProfileIdle ==
    /\ currentUser = "other"
    /\ employeeSkills = {}
    /\ showSkillModal = FALSE
    /\ selectedSkillId = 0
    /\ proficiencyLevel = 3
    /\ yearsOfExperience = 1
    /\ skillRequests = <<>>
    /\ skillRecords = {}
    /\ saving = FALSE
    /\ refused = FALSE

\* the Employees page is not open
EmployeesIdle ==
    /\ employees = {}
    /\ selectedSkillIds = <<>>
    /\ employeesLoading = TRUE
    /\ employeeRequests = <<>>
    /\ requestFailed = FALSE
    /\ toggles = <<>>

\* useState formData initial value: the fields validateForm reads
EmptyForm == [name |-> "", client_id |-> "", team_size |-> 1, dates |-> "ordered"]

\* the ProjectForm page is not open
FormIdle ==
    /\ isEditMode = FALSE
    /\ formMounted = FALSE
    /\ formLoading = TRUE
    /\ formError = ""
    /\ submitting = FALSE
    /\ errors = {}
    /\ formData = EmptyForm
    /\ formSkills = {}
    /\ selectedSkills = {}
    /\ formRequests = {}
    /\ projectSkills = {}
    /\ untouched = TRUE
    /\ projectLoaded = FALSE

\* useState formData initial value of the add-employee modal
EmptyAddForm == [name |-> <<>>, email |-> <<>>, password |-> <<>>]

\* the add-employee modal closed and never used
AddIdle ==
    /\ showAddModal = FALSE
    /\ addFormData = EmptyAddForm
    /\ formErrors = {}
    /\ addSubmitting = FALSE
    /\ addCall = "idle"
    /\ registered = 0
    /\ addOutcome = None

\* the Skills page never opened
SkillsIdle ==
    /\ skillList = {}
    /\ skillsLoading = TRUE
    /\ skillStore = {}
    /\ skillCalls = <<>>
    /\ alertShown = ""
    /\ deleteOutcome = None

\* ProjectDetail never opened
DetailIdle ==
    /\ members = {}
    /\ memberStore = {}
    /\ memberCalls = <<>>
    /\ showAddMemberDialog = FALSE
    /\ newMember = 0
    /\ nextMemberId = 1
    /\ memberOps = [added |-> {}, removed |-> {}, failed |-> FALSE]

\* no candidate selected on the matching page
CandidatesIdle ==
    /\ selectedEmployees = <<>>
    /\ selectionCalls = <<>>
    /\ projectMembers = {}
    /\ selectionOutcome = None

OtherPagesIdle == AddIdle /\ SkillsIdle /\ DetailIdle /\ CandidatesIdle

RestInit ==
    /\ ProfileIdle
    /\ AuthLoaded
    /\ EmployeesIdle
    /\ FormIdle
    /\ OtherPagesIdle

----------------------------------------------------------------------------
(* Specification of the page *)

Roles == {"admin", "manager", "employee", NoUser}

Init ==
    /\ user \in Roles
    /\ location = MatchingPath
    /\ mounted = FALSE
    /\ loading = FALSE
    /\ matchingResult = None
    /\ weights = InitialWeights
    /\ request = None
    /\ pool = {}
    /\ totalSign = "none"
    /\ moved = FALSE
    /\ probe = None
    /\ RestInit

Next ==
    \/ Mount
    \/ runMatching
    \/ MatchingSucceeds
    \/ MatchingFails
    \/ \E type \in WeightTypes, value \in SliderValues : handleWeightChange(type, value)

Spec == Init /\ [][Next]_vars

----------------------------------------------------------------------------
(* Specification of the pure functions: Init draws the inputs, one action per
   function applies it and stores the outcome in probe.out *)

ScoreGrid == {Rat(k, ScoreDen) : k \in 0..(100 * ScoreDen)}

SubScoreValues == {RInt(0), RInt(25), RInt(50), RInt(75), RInt(100)}

WeightValues == {Rat(k, WeightGrid) : k \in 0..WeightGrid}

WeightTriples == [WeightTypes -> WeightValues]

\* proficiency and importance levels are ordinals 1..5
Levels == 1..5

SkillIds == 1..MaxSkills

\* the requirement lists over a set of skills, in skill order
RECURSIVE RequirementLists(_)
RequirementLists(n) ==
    IF n = 0 THEN {<<>>}
    ELSE RequirementLists(n - 1) \cup
         {Append(r, [skill |-> n, importance_level |-> i]) :
             r \in RequirementLists(n - 1), i \in Levels}

ProbeInputs ==
    [fn : {"tier"}, score : ScoreGrid, out : {None}]
    \cup [fn : {"score"}, query : WeightTriples, skill_match : SubScoreValues,
          experience : SubScoreValues, availability : SubScoreValues, out : {None}]
    \cup [fn : {"normalize"}, weights : WeightTriples, type : WeightTypes, out : {None}]
    \cup [fn : {"engine"}, pool : CandidatePools, query : WeightTriples, out : {None}]
    \cup [fn : {"skill"}, skills : [SkillIds -> {0} \cup Levels],
          required : RequirementLists(MaxSkills), out : {None}]

Pending(fn) == probe # None /\ probe.fn = fn /\ probe.out = None

\* the tier of a score: by the engine, and as the page colours and labels it
ApplyTier ==
    /\ Pending("tier")
    /\ probe' = [probe EXCEPT !.out = [tier  |-> Tier(probe.score),
                                       color |-> getScoreColor(probe.score),
                                       badge |-> getScoreBadge(probe.score)]]
    /\ UNCHANGED <<pageVars, restVars>>

\* the engine scores one candidate under the weights it normalised
ApplyScore ==
    /\ Pending("score")
    /\ ValidWeights(probe.query)
    /\ LET w == NormalizeWeights(probe.query)
       IN  probe' = [probe EXCEPT !.out =
                        [weights_used |-> w,
                         total |-> TotalScore(w, probe.skill_match, probe.experience,
                                              probe.availability)]]
    /\ UNCHANGED <<pageVars, restVars>>

\* a weight triple is normalised again: by the engine, and by handleWeightChange
\* called for one slider with the value it already has
ApplyNormalize ==
    /\ Pending("normalize")
    /\ probe' = [probe EXCEPT !.out =
                    [engine |-> NormalizeWeights(probe.weights),
                     page   |-> NormalizedWeights(probe.weights, probe.type,
                                                  probe.weights[probe.type])]]
    /\ UNCHANGED <<pageVars, restVars>>

\* SkillCompatibility of one employee with one requirement list
ApplySkill ==
    /\ Pending("skill")
    /\ probe' = [probe EXCEPT !.out =
                    [skill_match |-> SkillMatch(probe.skills, probe.required),
                     matched_skills |-> MatchedSkills(probe.skills, probe.required)]]
    /\ UNCHANGED <<pageVars, restVars>>

\* one invocation of the engine
ApplyEngine ==
    /\ Pending("engine")
    /\ probe' = [probe EXCEPT !.out = RunEngine(Project, probe.pool, probe.query)]
    /\ UNCHANGED <<pageVars, restVars>>

InitFn ==
    /\ user = "admin"
    /\ location = MatchingPath
    /\ mounted = FALSE
    /\ loading = FALSE
    /\ matchingResult = None
    /\ weights = InitialWeights
    /\ request = None
    /\ pool = {}
    /\ totalSign = "none"
    /\ moved = FALSE
    /\ probe \in ProbeInputs
    /\ RestInit

NextFn ==
    \/ ApplyTier
    \/ ApplyScore
    \/ ApplyNormalize
    \/ ApplySkill
    \/ ApplyEngine

SpecFn == InitFn /\ [][NextFn]_vars

----------------------------------------------------------------------------
(* Properties *)

NonNegativeTriple(w) == \A t \in WeightTypes : RGe(w[t], RInt(0))
NormalizedTriple(w) == NonNegativeTriple(w) /\ WeightSum(w) = RInt(1)
ZeroTriple(w) == \A t \in WeightTypes : w[t] = RInt(0)

\* C1: after a slider move whose three raw values had a strictly positive sum
\* the stored weights are each >= 0 and sum to 1; so in every reachable state
\* the weights sum to 1, or the raw sum of the last move was 0.
C1_WeightNormalisation ==
    /\ totalSign = "positive" => NormalizedTriple(weights)
    /\ NormalizedTriple(weights) \/ totalSign = "zero"

\* a slider move with a positive raw sum has stored new normalised weights
C1_Witness == totalSign = "positive" /\ weights # InitialWeights

\* the candidates of a list, and of the four lists of a result
ListCandidates(l) == {l[j] : j \in 1..Len(l)}
ResultCandidates(r) ==
    UNION {ListCandidates(r.categorized_recommendations[Tiers[i]]) : i \in 1..Len(Tiers)}

\* the displayed result was computed from the weights the page still shows
ShownRun == Displayed /\ ~moved

\* C2: a matching run sent with all three weights zero is computed with the
\* default triple (0.5, 0.3, 0.2): weights_used is the default, every total is
\* the default-weighted sum of the sub-scores, and no result reports (0, 0, 0).
C2_DefaultSubstitution ==
    /\ (ShownRun /\ ZeroTriple(weights)) =>
          /\ matchingResult.weights_used = DefaultWeights
          /\ \A c \in ResultCandidates(matchingResult) :
                c.scores.total = TotalScore(DefaultWeights, c.scores.skill_match,
                                            c.scores.experience, c.scores.availability)
    /\ matchingResult # None => ~ZeroTriple(matchingResult.weights_used)

\* a result for all-zero weights is displayed, with a candidate in it
C2_Witness == ShownRun /\ ZeroTriple(weights) /\ pool # {}

\* the employees of a sequence of candidates
EmployeesOf(l) == {l[j].employee : j \in 1..Len(l)}

\* C3: the four tier lists hold every candidate of the pool exactly once, the
\* summary counts are the list sizes and add up to total_candidates, and the
\* "all" tab shows each candidate once, as many cards as its label counts.
C3_TierPartition ==
    matchingResult # None =>
        LET r == matchingResult
            lists == r.categorized_recommendations
        IN  /\ \A e \in pool :
                  Cardinality({i \in 1..Len(Tiers) : e \in EmployeesOf(lists[Tiers[i]])}) = 1
            /\ \A i \in 1..Len(Tiers) :
                  /\ EmployeesOf(lists[Tiers[i]]) \subseteq pool
                  /\ Cardinality(EmployeesOf(lists[Tiers[i]])) = Len(lists[Tiers[i]])
            /\ r.summary.excellent_matches = Len(lists.excellent)
            /\ r.summary.good_matches = Len(lists.good)
            /\ r.summary.fair_matches = Len(lists.fair)
            /\ r.summary.poor_matches = Len(lists.poor)
            /\ r.summary.excellent_matches + r.summary.good_matches
                  + r.summary.fair_matches + r.summary.poor_matches
                  = r.summary.total_candidates
            /\ EmployeesOf(AllTab(r)) = pool
            /\ Len(AllTab(r)) = Cardinality(pool)
            /\ Len(AllTab(r)) = AllTabCount(r)

\* a displayed result with candidates in two different tiers, one of them poor
C3_Witness ==
    /\ Displayed
    /\ Len(matchingResult.categorized_recommendations.poor) > 0
    /\ Len(matchingResult.categorized_recommendations.poor)
          < matchingResult.summary.total_candidates

\* C6 as claimed: a displayed result whose sliders were not moved since its run
\* shows the weights the result reports as used, and weights_used sums to 1.
C6_ShownWeightsAreUsed ==
    /\ ShownRun => ShownWeights = matchingResult.weights_used
    /\ matchingResult # None => WeightSum(matchingResult.weights_used) = RInt(1)

\* l is in non-increasing total score, equal totals by ascending employee id
Ordered(l) == \A i, j \in 1..Len(l) : i < j => RanksBefore(l[i], l[j])

\* C8: every tier list is in non-increasing total score with equal scores in
\* ascending employee id, and so is the "all" view over the whole pool.
C8_Ordering ==
    matchingResult # None =>
        /\ \A i \in 1..Len(Tiers) :
              Ordered(matchingResult.categorized_recommendations[Tiers[i]])
        /\ \A i, j \in 1..Len(AllTab(matchingResult)) :
              i < j => RGe(AllTab(matchingResult)[i].scores.total,
                           AllTab(matchingResult)[j].scores.total)

\* a displayed "all" view over two tiers, and one with two equal totals
C8_Witness ==
    /\ Displayed
    /\ Len(AllTab(matchingResult)) = 2
    /\ \/ RGt(AllTab(matchingResult)[1].scores.total, AllTab(matchingResult)[2].scores.total)
          /\ Len(matchingResult.categorized_recommendations.excellent) = 1
       \/ AllTab(matchingResult)[1].scores.total = AllTab(matchingResult)[2].scores.total

\* C10: the engine answers a request for an empty candidate pool with a result,
\* not an error, and that result has all five counts 0 and four empty lists.
C10_EmptyPool ==
    /\ request # None => ~IsError(RunEngine(Project, {}, request))
    /\ (matchingResult # None /\ pool = {}) =>
          /\ matchingResult.summary.total_candidates = 0
          /\ matchingResult.summary.excellent_matches = 0
          /\ matchingResult.summary.good_matches = 0
          /\ matchingResult.summary.fair_matches = 0
          /\ matchingResult.summary.poor_matches = 0
          /\ \A i \in 1..Len(Tiers) :
                matchingResult.categorized_recommendations[Tiers[i]] = <<>>

\* the result of a run on an empty pool is displayed
C10_Witness == Displayed /\ pool = {}

\* the weights with the one of type t replaced by a value below zero
NegatedWeights(w, t) ==
    [w EXCEPT ![t] = RNeg(RAdd(<<Abs(w[t][1]), w[t][2]>>, SliderStep))]

\* C11: the engine answers an invocation with a negative weight by the
\* validation error alone, whatever the pool, so that no candidate is scored
\* and no list is returned; and no request of the page carries a negative
\* weight.
C11_NegativeWeights ==
    /\ request # None => ValidWeights(request)
    /\ \A t \in WeightTypes, P \in CandidatePools :
          RunEngine(Project, P, NegatedWeights(weights, t)) = [error |-> "validation"]

\* a request sent after slider moves, with a weight at the lower end 0
C11_Witness == request # None /\ moved /\ request.skill = RInt(0)

\* C12: a match-employees POST is in flight only for an admin or a manager; for
\* every other user, and without a user, the mounted page has navigated to
\* /projects and has sent no request and holds no result.
C12_MatchingRestricted ==
    /\ request # None => (user = "admin" \/ user = "manager")
    /\ (mounted /\ user \notin {"admin", "manager"}) =>
          /\ location = ProjectsPath
          /\ request = None /\ ~loading /\ matchingResult = None

\* the page was mounted by an employee, and by nobody
C12_Witness == mounted /\ user \in {"employee", NoUser} /\ location = ProjectsPath

----------------------------------------------------------------------------
(* Properties of the pure functions, over the outcomes stored in probe *)

Done(fn) == probe # None /\ probe.fn = fn /\ probe.out # None

Percentage(x) == RGe(x, RInt(0)) /\ RLe(x, RInt(100))

\* the range of total scores of a tier
InTierRange(t, score) ==
    CASE t = "excellent" -> RGe(score, RInt(70))
      [] t = "good"      -> RGe(score, RInt(50)) /\ RLt(score, RInt(70))
      [] t = "fair"      -> RGe(score, RInt(30)) /\ RLt(score, RInt(50))
      [] t = "poor"      -> RLt(score, RInt(30))

\* C4: every score in [0,100] has exactly one tier, the one whose range holds
\* it (70 is excellent, 50 good, 30 fair); getScoreBadge and getScoreColor give
\* that same tier; and a candidate in tier list T has its total in T's range.
C4_TierThresholds ==
    /\ Done("tier") =>
          /\ \A i \in 1..Len(Tiers) :
                probe.out.tier = Tiers[i] <=> InTierRange(Tiers[i], probe.score)
          /\ BadgeTier(probe.out.badge) = probe.out.tier
          /\ ColorTier(probe.out.color) = probe.out.tier
    /\ (Done("engine") /\ ~IsError(probe.out)) =>
          \A i \in 1..Len(Tiers) :
             \A c \in ListCandidates(probe.out.categorized_recommendations[Tiers[i]]) :
                InTierRange(Tiers[i], c.scores.total)

\* the score 70 has been given its tier, badge and colour
C4_Witness == Done("tier") /\ probe.score = RInt(70) /\ probe.out.tier = "excellent"

\* C5: the total of every candidate is in [0,100] for all sub-scores in
\* [0,100] and all weights the engine applies, and so are the three sub-scores
\* of every candidate of a result.
C5_ScoreRange ==
    /\ Done("score") => Percentage(probe.out.total)
    /\ (Done("engine") /\ ~IsError(probe.out)) =>
          \A c \in ResultCandidates(probe.out) :
             /\ Percentage(c.scores.total)
             /\ Percentage(c.scores.skill_match)
             /\ Percentage(c.scores.experience)
             /\ Percentage(c.scores.availability)

\* a candidate with all sub-scores 100 was scored for weights that sum to 3
C5_Witness ==
    /\ Done("score")
    /\ WeightSum(probe.query) = RInt(3)
    /\ probe.out.total = RInt(100)

\* C7: a weight triple that is non-negative and sums to 1 is returned unchanged
\* by the engine's normalisation, and by handleWeightChange called for any
\* slider with the value it already has.
C7_NormalisationIdempotent ==
    (Done("normalize") /\ NormalizedTriple(probe.weights)) =>
        /\ probe.out.engine = probe.weights
        /\ probe.out.page = probe.weights

\* a triple with three positive weights that sum to 1 was normalised again
C7_Witness ==
    /\ Done("normalize")
    /\ NormalizedTriple(probe.weights)
    /\ \A t \in WeightTypes : RGt(probe.weights[t], RInt(0))

RECURSIVE SeqSum(_)
SeqSum(q) == IF q = <<>> THEN RInt(0) ELSE RAdd(Head(q), SeqSum(Tail(q)))

\* the contribution of one required skill as C9 states it
ClaimedContribution(level, required) ==
    CASE level = 0 -> RInt(0)
      [] level >= required -> RInt(100)
      [] OTHER -> RDiv(RInt(100 * level), RInt(required))

\* C9: skill_match is the importance-weighted average of the per-skill
\* contributions (0 without a record, 100 at or above the required level,
\* 100 * level / required below it) and lies in [0,100]; without required
\* skills it is the neutral constant, whatever the employee's skills.
C9_SkillCompatibility ==
    Done("skill") =>
        LET reqs == probe.required
            sm == probe.out.skill_match
            imp == [i \in 1..Len(reqs) |-> RInt(reqs[i].importance_level)]
            part == [i \in 1..Len(reqs) |->
                        RMul(imp[i], ClaimedContribution(probe.skills[reqs[i].skill],
                                                         reqs[i].importance_level))]
        IN  /\ Percentage(sm)
            /\ reqs = <<>> => sm = RInt(NeutralSkillMatch)
            /\ reqs # <<>> => RMul(sm, SeqSum(imp)) = SeqSum(part)
            /\ (reqs # <<>> /\ \A i \in 1..Len(reqs) : probe.skills[reqs[i].skill] = 0)
                  => sm = RInt(0)
            /\ (reqs # <<>> /\ \A i \in 1..Len(reqs) :
                                  probe.skills[reqs[i].skill] >= reqs[i].importance_level)
                  => sm = RInt(100)

\* two required skills: one the employee lacks, one held below the required
\* level, and one case of a skill held above the required level
C9_Witness ==
    /\ Done("skill")
    /\ Len(probe.required) = 2
    /\ probe.skills[probe.required[1].skill] = 0
    /\ probe.skills[probe.required[2].skill] > 0
    /\ probe.skills[probe.required[2].skill] < probe.required[2].importance_level

----------------------------------------------------------------------------
(* EmployeeProfile.tsx: the skills card and the add-skill dialog *)

\* largest number of skill requests of the profile page in flight at once
MaxInFlight == 2

\* largest number the user types into a years input
MaxYears == 1

\* the skills of GET /skills/ (availableSkills, loaded by the mount effect)
availableSkills == 1..MaxProfileSkills

\* highest option the user picks in a proficiency select
MaxChosen == 1

\* SelectItem value="1" .. value="5" of both proficiency selects
ProficiencyOptions == {1, 2, 3, 4, 5}

\* the options the user picks
ChosenOptions == {option \in ProficiencyOptions : option <= MaxChosen}

\* Number(e.target.value) of an input of type number: min and max restrict the
\* spinner and the form validation, not the text the user types
YearsEntered == -1..MaxYears

canEdit_Anyone == TRUE

canEdit == currentUser = "self" \/ currentUser = "admin"

HasSkill(list, skill_id) == \E es \in list : es.skill_id = skill_id

\* the SelectItems of the skill select of the dialog
OfferedSkills == {skill \in availableSkills : ~HasSkill(employeeSkills, skill)}

EmployeeSkill(skill_id, proficiency, years) ==
    [skill_id |-> skill_id, proficiency_level |-> proficiency,
     years_of_experience |-> years]

SkillRequest(kind, skill_id, proficiency, years) ==
    [kind |-> kind, skill_id |-> skill_id, proficiency_level |-> proficiency,
     years_of_experience |-> years]

\* the GET of fetchEmployeeSkills, awaited by the handler `after`
FetchRequest(after) == SkillRequest("fetch", 0, 0, 0) @@ [after |-> after]

CanSend == Len(skillRequests) < MaxInFlight

Send(req) == skillRequests' = Append(skillRequests, req @@ [after |-> "none"])

\* the request at position i is answered and a follow-up takes its place
Replace(i, req) == skillRequests' = [skillRequests EXCEPT ![i] = req]

Remove(i) ==
    skillRequests' = [k \in 1..(Len(skillRequests) - 1) |->
                         IF k < i THEN skillRequests[k] ELSE skillRequests[k + 1]]

dialogVars == <<showSkillModal, selectedSkillId, proficiencyLevel, yearsOfExperience>>

\* the profile form
formVars == <<saving, refused>>

\* the state outside the profile page
nonProfileVars == <<pageVars, probe, authVars, employeesVars, formPageVars,
                    otherPagesVars>>

\* the button that opens the dialog
openSkillModal ==
    /\ canEdit
    /\ ~showSkillModal
    /\ showSkillModal' = TRUE
    /\ UNCHANGED <<nonProfileVars, formVars, currentUser, employeeSkills, selectedSkillId, proficiencyLevel,
                   yearsOfExperience, skillRequests, skillRecords>>

\* onOpenChange of the dialog (Escape, click outside): the fields are kept
closeSkillModal ==
    /\ showSkillModal
    /\ showSkillModal' = FALSE
    /\ UNCHANGED <<nonProfileVars, formVars, currentUser, employeeSkills, selectedSkillId, proficiencyLevel,
                   yearsOfExperience, skillRequests, skillRecords>>

\* the cancel button of the dialog
cancelSkillModal ==
    /\ showSkillModal
    /\ showSkillModal' = FALSE
    /\ selectedSkillId' = 0
    /\ proficiencyLevel' = 3
    /\ yearsOfExperience' = 1
    /\ UNCHANGED <<nonProfileVars, formVars, currentUser, employeeSkills, skillRequests, skillRecords>>

setSelectedSkillId(skill) ==
    /\ showSkillModal
    /\ skill \in OfferedSkills
    /\ selectedSkillId' = skill
    /\ UNCHANGED <<nonProfileVars, formVars, currentUser, employeeSkills, showSkillModal, proficiencyLevel,
                   yearsOfExperience, skillRequests, skillRecords>>

setProficiencyLevel(level) ==
    /\ showSkillModal
    /\ proficiencyLevel' = level
    /\ UNCHANGED <<nonProfileVars, formVars, currentUser, employeeSkills, showSkillModal, selectedSkillId,
                   yearsOfExperience, skillRequests, skillRecords>>

setYearsOfExperience(years) ==
    /\ showSkillModal
    /\ yearsOfExperience' = years
    /\ UNCHANGED <<nonProfileVars, formVars, currentUser, employeeSkills, showSkillModal, selectedSkillId,
                   proficiencyLevel, skillRequests, skillRecords>>

\* handleAddSkill up to its first await: the add button is disabled only while
\* no skill is selected
handleAddSkill ==
    /\ showSkillModal
    /\ selectedSkillId # 0 /\ canEdit
    /\ CanSend
    /\ Send(SkillRequest("add", selectedSkillId, proficiencyLevel, yearsOfExperience))
    /\ UNCHANGED <<nonProfileVars, formVars, currentUser, employeeSkills, dialogVars, skillRecords>>

\* handleUpdateSkill up to its first await, called by the proficiency select or
\* the years input of a listed skill
handleUpdateSkill(skillId, proficiency, years) ==
    /\ canEdit
    /\ CanSend
    /\ Send(SkillRequest("update", skillId, proficiency, years))
    /\ UNCHANGED <<nonProfileVars, formVars, currentUser, employeeSkills, dialogVars, skillRecords>>

UpdateProficiency ==
    \E skill \in employeeSkills, value \in ChosenOptions :
        handleUpdateSkill(skill.skill_id, value, skill.years_of_experience)

UpdateYears ==
    \E skill \in employeeSkills, value \in YearsEntered :
        handleUpdateSkill(skill.skill_id, skill.proficiency_level, value)

\* handleRemoveSkill up to its first await, the confirm accepted
handleRemoveSkill ==
    \E skill \in employeeSkills :
        /\ canEdit
        /\ CanSend
        /\ Send(SkillRequest("remove", skill.skill_id, 0, 0))
        /\ UNCHANGED <<nonProfileVars, formVars, currentUser, employeeSkills, dialogVars, skillRecords>>

\* the backend accepts a record with an ordinal proficiency and non-negative years
ValidSkill(req) == req.proficiency_level \in Levels /\ req.years_of_experience >= 0

\* the backend keeps one record per (employee, skill): an add or an update
\* of a pair that has a record replaces it
Upsert(records, req) ==
    {es \in records : es.skill_id # req.skill_id}
        \cup {EmployeeSkill(req.skill_id, req.proficiency_level, req.years_of_experience)}

\* the POST, PUT or DELETE at position i succeeds: the handler goes on to
\* await fetchEmployeeSkills()
WriteSucceeds ==
    \E i \in 1..Len(skillRequests) :
        LET req == skillRequests[i]
        IN  /\ req.kind \in {"add", "update", "remove"}
            /\ \/ /\ req.kind = "add"
                  /\ ValidSkill(req)
                  /\ skillRecords' = Upsert(skillRecords, req)
               \/ /\ req.kind = "update"
                  /\ ValidSkill(req)
                  /\ HasSkill(skillRecords, req.skill_id)
                  /\ skillRecords' = Upsert(skillRecords, req)
               \/ /\ req.kind = "remove"
                  /\ skillRecords' = {es \in skillRecords : es.skill_id # req.skill_id}
            /\ Replace(i, FetchRequest(req.kind))
            /\ UNCHANGED <<nonProfileVars, formVars, currentUser, employeeSkills, dialogVars>>

\* the POST, PUT or DELETE at position i fails: the catch branch alerts
WriteFails ==
    \E i \in 1..Len(skillRequests) :
        /\ skillRequests[i].kind \in {"add", "update", "remove"}
        /\ Remove(i)
        /\ UNCHANGED <<nonProfileVars, formVars, currentUser, employeeSkills, dialogVars, skillRecords>>

\* the rest of handleAddSkill after await fetchEmployeeSkills()
AfterFetch(after) ==
    IF after = "add"
    THEN /\ showSkillModal' = FALSE
         /\ selectedSkillId' = 0
         /\ proficiencyLevel' = 3
         /\ yearsOfExperience' = 1
    ELSE UNCHANGED dialogVars

\* the GET of fetchEmployeeSkills is answered; fetchEmployeeSkills catches a
\* failure, so the awaiting handler goes on in both cases
fetchEmployeeSkills ==
    \E i \in 1..Len(skillRequests), ok \in BOOLEAN :
        /\ skillRequests[i].kind = "fetch"
        /\ employeeSkills' = IF ok THEN skillRecords ELSE employeeSkills
        /\ AfterFetch(skillRequests[i].after)
        /\ Remove(i)
        /\ UNCHANGED <<nonProfileVars, formVars, currentUser, skillRecords>>

\* the submit event of the profile form: handleSubmit up to its await, or to
\* its return when the user may not edit; the save button is disabled while
\* saving
handleSubmit ==
    IF ~canEdit
    THEN /\ refused' = TRUE
         /\ UNCHANGED <<nonProfileVars, currentUser, employeeSkills, dialogVars,
                        skillRequests, skillRecords, saving>>
    ELSE /\ ~saving
         /\ CanSend
         /\ saving' = TRUE
         /\ Send(SkillRequest("profile", 0, 0, 0))
         /\ UNCHANGED <<nonProfileVars, currentUser, employeeSkills, dialogVars,
                        skillRecords, refused>>

\* the profile PUT is answered: alert or error message, then setSaving(false)
ProfileSaved ==
    \E i \in 1..Len(skillRequests) :
        /\ skillRequests[i].kind = "profile"
        /\ saving' = FALSE
        /\ Remove(i)
        /\ UNCHANGED <<nonProfileVars, currentUser, employeeSkills, dialogVars,
                       skillRecords, refused>>

NextProfile ==
    \/ openSkillModal
    \/ closeSkillModal
    \/ cancelSkillModal
    \/ \E skill \in availableSkills : setSelectedSkillId(skill)
    \/ \E level \in ChosenOptions : setProficiencyLevel(level)
    \/ \E years \in YearsEntered : setYearsOfExperience(years)
    \/ handleAddSkill
    \/ UpdateProficiency
    \/ UpdateYears
    \/ handleRemoveSkill
    \/ WriteSucceeds
    \/ WriteFails
    \/ fetchEmployeeSkills
    \/ handleSubmit
    \/ ProfileSaved

\* the matching page is not open while the profile page is used
PageIdle ==
    /\ user = "admin" /\ location = MatchingPath /\ mounted = FALSE
    /\ loading = FALSE /\ matchingResult = None /\ weights = InitialWeights
    /\ request = None /\ pool = {} /\ totalSign = "none" /\ moved = FALSE
    /\ probe = None

InitProfile ==
    PageIdle /\ ProfileInit /\ AuthLoaded /\ EmployeesIdle /\ FormIdle /\ OtherPagesIdle

SpecProfile == InitProfile /\ [][NextProfile]_vars

AddsInFlight(skill_id) ==
    {i \in 1..Len(skillRequests) :
        skillRequests[i].kind = "add" /\ skillRequests[i].skill_id = skill_id}

\* C13: the profile page never has two add-skill POSTs for the same
\* (employee, skill) pair in flight, and never sends an add-skill POST for a
\* skill that the list it shows already holds
C13_OneAddPerSkill ==
    \A skill \in availableSkills :
        /\ Cardinality(AddsInFlight(skill)) <= 1
        /\ HasSkill(employeeSkills, skill) => AddsInFlight(skill) = {}

\* C14: every add-skill POST and update-skill PUT in flight carries a
\* proficiency_level in 1..5 and years_of_experience >= 0
C14_SkillRecordRanges ==
    \A i \in 1..Len(skillRequests) :
        skillRequests[i].kind \in {"add", "update"} =>
            /\ skillRequests[i].proficiency_level \in 1..5
            /\ skillRequests[i].years_of_experience >= 0

Writes == {"add", "update", "remove", "profile"}

\* C22: while the current user is neither the owner of the profile nor an
\* admin, no POST, PUT or DELETE of the profile page is in flight
C22_EditPermission ==
    currentUser = "other" =>
        \A i \in 1..Len(skillRequests) : skillRequests[i].kind \notin Writes

C22_Witness ==
    /\ currentUser = "other"
    /\ refused
    /\ employeeSkills # {}

----------------------------------------------------------------------------
(* authStore.ts: login, logout, fetchCurrentUser, and the response
   interceptor of lib/axios that every api call passes through *)

\* largest number of store calls awaiting a response at once
MaxCalls == 2

HomePath == "/"

LoginPath == "/login"

\* response.status of an unauthorised request
Unauthorized == 401

\* response.status of a failing backend
ServerError == 500

ErrorStatuses == {Unauthorized, ServerError}

\* the users /auth/me answers with, by role
Payloads == {"admin", "manager", "employee"}

\* the response interceptor's rejected handler: what it leaves in localStorage
\* and in window.location.href, and the error it rejects with
responseInterceptor_KeepsToken(error) ==
    [access_token |-> access_token,
     location |-> IF error.status = Unauthorized THEN LoginPath ELSE location,
     rejected |-> error]

responseInterceptor(error) ==
    [access_token |-> IF error.status = Unauthorized THEN NoToken ELSE access_token,
     location |-> IF error.status = Unauthorized THEN LoginPath ELSE location,
     rejected |-> error]

Call(op, awaits, token) == [op |-> op, awaits |-> awaits, access_token |-> token]

Without(i) ==
    [k \in 1..(Len(calls) - 1) |-> IF k < i THEN calls[k] ELSE calls[k + 1]]

\* the state outside the auth store
nonAuthVars == <<mounted, loading, matchingResult, weights, request, pool,
                 totalSign, moved, probe, profileVars, employeesVars, formPageVars,
                 otherPagesVars>>

\* login up to await api.post('/auth/login')
login ==
    /\ Len(calls) < MaxCalls
    /\ calls' = Append(calls, Call("login", "post", NoToken))
    /\ settled' = None
    /\ UNCHANGED <<user, location, access_token, isAuthenticated, isLoading, nonAuthVars>>

LoginAccepted_TokenNotStored ==
    \E i \in 1..Len(calls), token \in Tokens :
        /\ calls[i].op = "login" /\ calls[i].awaits = "post"
        /\ isLoading' = TRUE
        /\ calls' = [calls EXCEPT ![i] = Call("login", "me", token)]
        /\ settled' = [op |-> "login", event |-> "accepted", token |-> token]
        /\ UNCHANGED <<user, location, access_token, isAuthenticated, nonAuthVars>>

\* the login POST is answered with a token: login stores it and calls
\* fetchCurrentUser, which finds the token and requests /auth/me
LoginAccepted ==
    \E i \in 1..Len(calls), token \in Tokens :
        /\ calls[i].op = "login" /\ calls[i].awaits = "post"
        /\ access_token' = token
        /\ isLoading' = TRUE
        /\ calls' = [calls EXCEPT ![i] = Call("login", "me", token)]
        /\ settled' = [op |-> "login", event |-> "accepted", token |-> token]
        /\ UNCHANGED <<user, location, isAuthenticated, nonAuthVars>>

\* the login POST fails: the interceptor handles the error, and login, which
\* has no catch, rejects with it
LoginRejected ==
    \E i \in 1..Len(calls), status \in ErrorStatuses :
        LET handled == responseInterceptor([status |-> status])
        IN  /\ calls[i].op = "login" /\ calls[i].awaits = "post"
            /\ access_token' = handled.access_token
            /\ location' = handled.location
            /\ calls' = Without(i)
            /\ settled' = [op |-> "login", event |-> "rejected",
                           error |-> [status |-> status], with |-> handled.rejected,
                           before |-> [user |-> user, isAuthenticated |-> isAuthenticated,
                                       access_token |-> access_token]]
            /\ UNCHANGED <<user, isAuthenticated, isLoading, nonAuthVars>>

\* fetchCurrentUser up to await api.get('/auth/me'), or to its return when no
\* token is stored
fetchCurrentUser ==
    /\ IF access_token = NoToken
       THEN /\ user' = NoUser
            /\ isAuthenticated' = FALSE
            /\ isLoading' = FALSE
            /\ settled' = [op |-> "fetchCurrentUser", event |-> "no_token",
                           requests |-> Len(calls)]
            /\ UNCHANGED calls
       ELSE /\ Len(calls) < MaxCalls
            /\ isLoading' = TRUE
            /\ calls' = Append(calls, Call("fetchCurrentUser", "me", access_token))
            /\ settled' = None
            /\ UNCHANGED <<user, isAuthenticated>>
    /\ UNCHANGED <<location, access_token, nonAuthVars>>

\* /auth/me is answered with the user; a login that awaited it resolves with
\* no value
MeSucceeds ==
    \E i \in 1..Len(calls), payload \in Payloads :
        /\ calls[i].awaits = "me"
        /\ user' = payload
        /\ isAuthenticated' = TRUE
        /\ isLoading' = FALSE
        /\ calls' = Without(i)
        /\ settled' = [op |-> calls[i].op, event |-> "resolved", value |-> "undefined",
                       me |-> "ok", payload |-> payload]
        /\ UNCHANGED <<location, access_token, nonAuthVars>>

MeFails_KeepsToken ==
    \E i \in 1..Len(calls), status \in ErrorStatuses :
        LET handled == responseInterceptor([status |-> status])
        IN  /\ calls[i].awaits = "me"
            /\ access_token' = handled.access_token
            /\ location' = handled.location
            /\ user' = NoUser
            /\ isAuthenticated' = FALSE
            /\ isLoading' = FALSE
            /\ calls' = Without(i)
            /\ settled' = [op |-> calls[i].op, event |-> "resolved", value |-> "undefined",
                           me |-> "failed", error |-> [status |-> status],
                           with |-> handled.rejected,
                           kept |-> handled.access_token,
                           before |-> [access_token |-> access_token]]
            /\ UNCHANGED nonAuthVars

\* /auth/me fails: the interceptor handles the error, the catch of
\* fetchCurrentUser clears the store; a login that awaited it still resolves
MeFails ==
    \E i \in 1..Len(calls), status \in ErrorStatuses :
        LET handled == responseInterceptor([status |-> status])
        IN  /\ calls[i].awaits = "me"
            /\ access_token' = NoToken
            /\ location' = handled.location
            /\ user' = NoUser
            /\ isAuthenticated' = FALSE
            /\ isLoading' = FALSE
            /\ calls' = Without(i)
            /\ settled' = [op |-> calls[i].op, event |-> "resolved", value |-> "undefined",
                           me |-> "failed", error |-> [status |-> status],
                           with |-> handled.rejected,
                           kept |-> handled.access_token,
                           before |-> [access_token |-> access_token]]
            /\ UNCHANGED nonAuthVars

logout_KeepsUser ==
    /\ access_token' = NoToken
    /\ isAuthenticated' = FALSE
    /\ settled' = [op |-> "logout", event |-> "done",
                   before |-> [user |-> user, isAuthenticated |-> isAuthenticated,
                               access_token |-> access_token]]
    /\ UNCHANGED <<user, location, isLoading, calls, nonAuthVars>>

logout ==
    /\ access_token' = NoToken
    /\ user' = NoUser
    /\ isAuthenticated' = FALSE
    /\ settled' = [op |-> "logout", event |-> "done",
                   before |-> [user |-> user, isAuthenticated |-> isAuthenticated,
                               access_token |-> access_token]]
    /\ UNCHANGED <<location, isLoading, calls, nonAuthVars>>

NextAuth ==
    \/ login
    \/ LoginAccepted
    \/ LoginRejected
    \/ fetchCurrentUser
    \/ MeSucceeds
    \/ MeFails
    \/ logout

InitAuth ==
    /\ user = NoUser /\ location = HomePath /\ mounted = FALSE
    /\ loading = FALSE /\ matchingResult = None /\ weights = InitialWeights
    /\ request = None /\ pool = {} /\ totalSign = "none" /\ moved = FALSE
    /\ probe = None
    /\ ProfileIdle
    /\ AuthInit
    /\ EmployeesIdle
    /\ FormIdle
    /\ OtherPagesIdle

SpecAuth == InitAuth /\ [][NextAuth]_vars

\* every request is answered in the end
SpecAuthFair == SpecAuth /\ WF_vars(MeSucceeds \/ MeFails) /\ WF_vars(LoginAccepted \/ LoginRejected)

Did(op, event) == settled # None /\ settled.op = op /\ settled.event = event

\* C15: whatever the store held, after logout access_token is gone from
\* localStorage, user is null and isAuthenticated is false
C15_Logout ==
    Did("logout", "done") =>
        /\ access_token = NoToken
        /\ user = NoUser
        /\ isAuthenticated = FALSE

C15_Witness ==
    /\ Did("logout", "done")
    /\ settled.before.isAuthenticated
    /\ settled.before.user # NoUser
    /\ settled.before.access_token # NoToken
    /\ calls # <<>>

LoginSettled ==
    /\ settled # None
    /\ settled.op = "login"
    /\ settled.event \in {"resolved", "rejected"}

\* C16: login never rejects; it resolves to true exactly when the store ends
\* authenticated, and to false otherwise
C16_LoginResult ==
    LoginSettled =>
        /\ settled.event = "resolved"
        /\ settled.value \in {"true", "false"}
        /\ (settled.value = "true") <=> isAuthenticated

\* C17 as claimed: a login that the backend accepted ends with the returned
\* token stored, isAuthenticated true and user the /auth/me payload; a login
\* that it rejected ends with no token, isAuthenticated false and user null
C17_LoginStateEffects_Claimed ==
    /\ Did("login", "resolved") =>
          /\ settled.me = "ok"
          /\ access_token # NoToken
          /\ isAuthenticated
          /\ user = settled.payload
    /\ Did("login", "rejected") =>
          /\ access_token = NoToken
          /\ isAuthenticated = FALSE
          /\ user = NoUser

\* C17 amended: an accepted login POST stores the returned token and requests
\* /auth/me at once; when /auth/me succeeds isAuthenticated is true and user is
\* its payload, when /auth/me fails the token is removed, user is null and
\* isAuthenticated is false; a rejected login POST leaves user and
\* isAuthenticated as they were and stores no token
C17_LoginStateEffects ==
    /\ Did("login", "accepted") =>
          /\ access_token = settled.token
          /\ \E i \in 1..Len(calls) : calls[i] = Call("login", "me", settled.token)
    /\ Did("login", "resolved") =>
          IF settled.me = "ok"
          THEN isAuthenticated /\ user = settled.payload
          ELSE access_token = NoToken /\ isAuthenticated = FALSE /\ user = NoUser
    /\ Did("login", "rejected") =>
          /\ user = settled.before.user
          /\ isAuthenticated = settled.before.isAuthenticated
          /\ access_token \in {settled.before.access_token, NoToken}

C17_Witness ==
    /\ Did("login", "rejected")
    /\ isAuthenticated
    /\ user # NoUser

MePending == \E i \in 1..Len(calls) : calls[i].awaits = "me"

FetchFailureSafe ==
    /\ Did("fetchCurrentUser", "no_token") =>
          /\ settled.requests = Len(calls)
          /\ user = NoUser /\ isAuthenticated = FALSE /\ isLoading = FALSE
    /\ (settled # None /\ settled.event = "resolved" /\ settled.me = "failed") =>
          /\ access_token = NoToken
          /\ user = NoUser /\ isAuthenticated = FALSE /\ isLoading = FALSE

\* C18: fetchCurrentUser without a stored token requests nothing; when
\* /auth/me fails the token is removed; both end with user null,
\* isAuthenticated false and isLoading false; and while a /auth/me request is
\* pending, isLoading becomes false in the end
C18_FetchFailurePaths == []FetchFailureSafe /\ (MePending ~> (isLoading = FALSE))

C18_Witness ==
    /\ Did("fetchCurrentUser", "resolved")
    /\ settled.me = "failed"
    /\ settled.error.status = ServerError
    /\ settled.before.access_token # NoToken

HandledError == settled # None /\ "error" \in DOMAIN settled

\* C19: a response with status 401 makes the interceptor remove access_token
\* and set the location to /login, and the request still rejects; an error
\* with another status is rejected as it is
C19_Unauthorized ==
    HandledError =>
        /\ settled.with = settled.error
        /\ settled.error.status = Unauthorized =>
              /\ location = LoginPath
              /\ IF settled.event = "rejected"
                 THEN access_token = NoToken
                 ELSE settled.kept = NoToken

C19_Witness ==
    /\ Did("login", "rejected")
    /\ settled.error.status = Unauthorized
    /\ settled.before.access_token # NoToken

\* C26: in every state reachable by interleaving login, logout,
\* fetchCurrentUser and their responses, an authenticated store has a user and
\* an access_token in localStorage
C26_AuthConsistency ==
    isAuthenticated => (user # NoUser /\ access_token # NoToken)

----------------------------------------------------------------------------
(* Employees.tsx: the employee list and its skill filter *)

\* largest number of GETs of the Employees page in flight at once
MaxEmployeeRequests == 2

\* number of employees the backend holds
MaxStaff == 2

\* number of skills offered as filter buttons
MaxFilterSkills == 2

\* the response of GET /employees/
Staff == 1..MaxStaff

FilterSkills == 1..MaxFilterSkills

\* employee e holds the skills below e: the first employee holds none
StaffSkills(e) == {skill \in FilterSkills : skill < e}

\* the elements of an array
Elems(array) == {array[k] : k \in 1..Len(array)}

\* array.filter((id) => id !== skillId)
RECURSIVE FilterOut(_, _)
FilterOut(array, skillId) ==
    IF array = <<>> THEN <<>>
    ELSE IF Head(array) = skillId THEN FilterOut(Tail(array), skillId)
    ELSE <<Head(array)>> \o FilterOut(Tail(array), skillId)

\* array.join(","): the ids as decimal strings with a comma between neighbours
RECURSIVE Join(_)
Join(array) ==
    IF array = <<>> THEN <<>>
    ELSE IF Len(array) = 1 THEN <<ToString(Head(array))>>
    ELSE <<ToString(Head(array)), ",">> \o Join(Tail(array))

\* the skill id a decimal string stands for
IdOf(text) == CHOOSE id \in FilterSkills : ToString(id) = text

\* the ids the backend reads from the skill_ids parameter
RECURSIVE ParseIds(_)
ParseIds(query) ==
    IF query = <<>> THEN {}
    ELSE IF Head(query) = "," THEN ParseIds(Tail(query))
    ELSE {IdOf(Head(query))} \cup ParseIds(Tail(query))

\* the response of GET /employees/search?skill_ids=...
SearchResult(skill_ids) == {e \in Staff : ParseIds(skill_ids) \subseteq StaffSkills(e)}

ListRequest == [kind |-> "list", skill_ids |-> <<>>]

SearchRequest(skill_ids) == [kind |-> "search", skill_ids |-> skill_ids]

nonEmployeesVars == <<pageVars, probe, profileVars, authVars, formPageVars,
                      otherPagesVars>>

\* searchEmployeesBySkills up to its await, under the selection it closes over
searchEmployeesBySkills(selection) ==
    IF Len(selection) = 0
    THEN /\ employeeRequests' = Append(employeeRequests, ListRequest)
         /\ UNCHANGED employeesLoading
    ELSE /\ employeesLoading' = TRUE
         /\ employeeRequests' = Append(employeeRequests, SearchRequest(Join(selection)))

\* the updater of setSelectedSkillIds in toggleSkillFilter
Toggled_AppendsAlways(prev, skillId) == Append(prev, skillId)

Toggled(prev, skillId) ==
    IF skillId \in Elems(prev)
    THEN FilterOut(prev, skillId)
    ELSE Append(prev, skillId)

\* a filter button is pressed; the effect on [selectedSkillIds] then runs
\* searchEmployeesBySkills
toggleSkillFilter(skillId) ==
    /\ Len(employeeRequests) < MaxEmployeeRequests
    /\ selectedSkillIds' = Toggled(selectedSkillIds, skillId)
    /\ searchEmployeesBySkills(selectedSkillIds')
    /\ toggles' = (IF toggles = <<>> THEN <<>> ELSE <<toggles[Len(toggles)]>>)
                      \o <<[skillId |-> skillId, before |-> selectedSkillIds,
                            issued |-> employeeRequests'[Len(employeeRequests')]]>>
    /\ UNCHANGED <<employees, requestFailed, nonEmployeesVars>>

WithoutRequest(i) ==
    [k \in 1..(Len(employeeRequests) - 1) |->
        IF k < i THEN employeeRequests[k] ELSE employeeRequests[k + 1]]

\* a GET is answered, in any order: fetchEmployees and
\* searchEmployeesBySkills both store the response they awaited
EmployeesRespond ==
    \E i \in 1..Len(employeeRequests) :
        /\ employees' = IF employeeRequests[i].kind = "list"
                        THEN Staff
                        ELSE SearchResult(employeeRequests[i].skill_ids)
        /\ employeesLoading' = FALSE
        /\ employeeRequests' = WithoutRequest(i)
        /\ UNCHANGED <<selectedSkillIds, requestFailed, toggles, nonEmployeesVars>>

\* a GET fails: the catch logs, the list stays as it is
EmployeesFail ==
    \E i \in 1..Len(employeeRequests) :
        /\ employeesLoading' = FALSE
        /\ employeeRequests' = WithoutRequest(i)
        /\ requestFailed' = TRUE
        /\ UNCHANGED <<employees, selectedSkillIds, toggles, nonEmployeesVars>>

NextEmployees ==
    \/ \E skillId \in FilterSkills : toggleSkillFilter(skillId)
    \/ EmployeesRespond
    \/ EmployeesFail

\* after the first render: both mount effects have called fetchEmployees
InitEmployees ==
    /\ PageIdle
    /\ ProfileIdle
    /\ AuthLoaded
    /\ employees = {}
    /\ selectedSkillIds = <<>>
    /\ employeesLoading = TRUE
    /\ employeeRequests = <<ListRequest, ListRequest>>
    /\ requestFailed = FALSE
    /\ toggles = <<>>
    /\ FormIdle
    /\ OtherPagesIdle

SpecEmployees == InitEmployees /\ [][NextEmployees]_vars

\* C20: with no skill selected, no request outstanding and no request having
\* failed, the page lists every employee of GET /employees/
C20_ClearedFilterShowsEveryone ==
    (selectedSkillIds = <<>> /\ employeeRequests = <<>> /\ ~requestFailed) =>
        employees = Staff

NoDuplicates(array) == Cardinality(Elems(array)) = Len(array)

LastToggle == toggles[Len(toggles)]

\* the last toggle added an absent id at the end or removed a present one,
\* no id occurs twice, and the request it issued is the search for the ids
\* joined in selection order, or the list request when none is selected
ToggleEffect ==
    /\ NoDuplicates(selectedSkillIds)
    /\ toggles # <<>> =>
          /\ IF LastToggle.skillId \in Elems(LastToggle.before)
             THEN /\ LastToggle.skillId \notin Elems(selectedSkillIds)
                  /\ Elems(selectedSkillIds) = Elems(LastToggle.before) \ {LastToggle.skillId}
             ELSE selectedSkillIds = LastToggle.before \o <<LastToggle.skillId>>
          /\ IF selectedSkillIds = <<>>
             THEN LastToggle.issued.kind = "list"
             ELSE /\ LastToggle.issued.kind = "search"
                  /\ Len(LastToggle.issued.skill_ids) = 2 * Len(selectedSkillIds) - 1
                  /\ \A k \in 1..Len(selectedSkillIds) :
                        LastToggle.issued.skill_ids[2 * k - 1] = ToString(selectedSkillIds[k])
                  /\ \A k \in 1..(Len(selectedSkillIds) - 1) :
                        LastToggle.issued.skill_ids[2 * k] = ","

SameSkillTwice == Len(toggles) = 2 /\ toggles[1].skillId = toggles[2].skillId

\* C21 as claimed: the toggle effect, and two toggles of the same skill give
\* back the selection as it was
C21_SkillFilterRequests_Claimed ==
    /\ ToggleEffect
    /\ SameSkillTwice => selectedSkillIds = toggles[1].before

\* C21 amended: the toggle effect, and two toggles of the same skill give
\* back the same ids; their order is the same when the skill was absent or
\* last before, otherwise the skill has moved to the end
C21_SkillFilterRequests ==
    /\ ToggleEffect
    /\ SameSkillTwice =>
          /\ Elems(selectedSkillIds) = Elems(toggles[1].before)
          /\ LET before == toggles[1].before
                 skillId == toggles[1].skillId
             IN  IF skillId \in Elems(before)
                 THEN selectedSkillIds = FilterOut(before, skillId) \o <<skillId>>
                 ELSE selectedSkillIds = before

C21_Witness ==
    /\ SameSkillTwice
    /\ Len(selectedSkillIds) = 2
    /\ selectedSkillIds # toggles[1].before
    /\ LastToggle.issued.kind = "search"

----------------------------------------------------------------------------
(* ProjectForm.tsx: creating and editing a project *)

\* number of skills of the skill master
MaxFormSkills == 1

FormPath == "/projects/:id/edit"

ProjectDetailPath == "/projects/:id"

\* the message of setError in the mount effect, by its meaning
AccessDenied == "access_denied"

SkillMaster == 1..MaxFormSkills

\* the name of a skill of the master
SkillName(id) == ToString(id)

\* the importance level the backend holds and the importance slider is set to
ImportanceChosen == {5}

\* the required_skills a project may hold: at most one importance per name
RequiredSkillSets ==
    {{[name |-> SkillName(id), importance_level |-> f[id]] : id \in ids} :
        f \in [SkillMaster -> ImportanceChosen], ids \in SUBSET SkillMaster}

\* the fields of the stored project that validateForm reads
StoredForm == [name |-> "p", client_id |-> "1", team_size |-> 1, dates |-> "ordered"]

canAccess_Everyone == TRUE

canAccess == user = "admin" \/ user = "manager"

\* the state outside the ProjectForm page
outsideFormVars == <<user, mounted, loading, matchingResult, weights, request, pool,
                     totalSign, moved, probe, profileVars, authVars, employeesVars,
                     otherPagesVars>>

nonFormVars == <<projectLoaded, outsideFormVars>>

\* the form is on screen
FormShown == location = FormPath /\ formMounted /\ ~formLoading /\ canAccess

\* the mount effect
FormMount ==
    /\ location = FormPath
    /\ ~formMounted
    /\ formMounted' = TRUE
    /\ IF ~canAccess
       THEN /\ formError' = AccessDenied
            /\ formLoading' = FALSE
            /\ UNCHANGED formRequests
       ELSE /\ formRequests' = {[kind |-> "clients"], [kind |-> "skills"]}
                                   \cup (IF isEditMode THEN {[kind |-> "project"]} ELSE {})
            /\ formLoading' = isEditMode
            /\ UNCHANGED formError
    /\ UNCHANGED <<location, isEditMode, submitting, errors, formData, formSkills,
                   selectedSkills, projectSkills, untouched, nonFormVars>>

\* fetchClients after its await
fetchClients ==
    \E ok \in BOOLEAN :
        /\ [kind |-> "clients"] \in formRequests
        /\ formRequests' = formRequests \ {[kind |-> "clients"]}
        /\ formError' = IF ok THEN formError ELSE "clients_failed"
        /\ UNCHANGED <<location, isEditMode, formMounted, formLoading, submitting, errors,
                       formData, formSkills, selectedSkills, projectSkills, untouched,
                       nonFormVars>>

\* fetchSkills after its await
fetchSkills ==
    \E ok \in BOOLEAN :
        /\ [kind |-> "skills"] \in formRequests
        /\ formRequests' = formRequests \ {[kind |-> "skills"]}
        /\ formSkills' = IF ok THEN SkillMaster ELSE formSkills
        /\ UNCHANGED <<location, isEditMode, formMounted, formLoading, formError,
                       submitting, errors, formData, selectedSkills, projectSkills,
                       untouched, nonFormVars>>

\* the skills that fetchProject reads: it was created by the first render, so
\* its `skills` is the initial state [] whatever fetchSkills has stored since
SkillsOfFetchProject == {}

\* skillsMap of fetchProject
SkillsMap(required_skills, skills) ==
    {[skill_id |-> id, importance_level |-> skill.importance_level] :
        <<id, skill>> \in {pair \in skills \X required_skills :
                              SkillName(pair[1]) = pair[2].name}}

\* fetchProject after its await
fetchProject ==
    \E ok \in BOOLEAN :
        /\ [kind |-> "project"] \in formRequests
        /\ formRequests' = formRequests \ {[kind |-> "project"]}
        /\ IF ok
           THEN /\ formData' = StoredForm
                /\ selectedSkills' = SkillsMap(projectSkills, SkillsOfFetchProject)
                /\ UNCHANGED formError
           ELSE /\ formError' = "project_failed"
                /\ UNCHANGED <<formData, selectedSkills>>
        /\ formLoading' = FALSE
        /\ projectLoaded' = ok
        /\ UNCHANGED <<location, isEditMode, formMounted, submitting, errors, formSkills,
                       projectSkills, untouched, outsideFormVars>>

\* an input of the form is changed
setFormData(field, value) ==
    /\ FormShown
    /\ formData' = [formData EXCEPT ![field] = value]
    /\ UNCHANGED <<location, isEditMode, formMounted, formLoading, formError, submitting,
                   errors, formSkills, selectedSkills, formRequests, projectSkills,
                   untouched, nonFormVars>>

EditField ==
    \/ \E value \in {"", "p"} : setFormData("name", value)
    \/ \E value \in {"", "1"} : setFormData("client_id", value)
    \/ \E value \in {-1, 1} : setFormData("team_size", value)
    \/ \E value \in {"ordered", "reversed"} : setFormData("dates", value)

HasSelected(skillId) == \E sel \in selectedSkills : sel.skill_id = skillId

\* the checkbox of a listed skill
handleSkillToggle(skillId) ==
    /\ FormShown
    /\ skillId \in formSkills
    /\ selectedSkills' =
          IF HasSelected(skillId)
          THEN {sel \in selectedSkills : sel.skill_id # skillId}
          ELSE selectedSkills \cup {[skill_id |-> skillId, importance_level |-> 3]}
    /\ untouched' = FALSE
    /\ UNCHANGED <<location, isEditMode, formMounted, formLoading, formError, submitting,
                   errors, formData, formSkills, formRequests, projectSkills, nonFormVars>>

\* the importance slider of a selected skill
handleSkillImportanceChange(skillId, importance) ==
    /\ FormShown
    /\ skillId \in formSkills
    /\ HasSelected(skillId)
    /\ selectedSkills' = {sel \in selectedSkills : sel.skill_id # skillId}
                             \cup {[skill_id |-> skillId, importance_level |-> importance]}
    /\ untouched' = FALSE
    /\ UNCHANGED <<location, isEditMode, formMounted, formLoading, formError, submitting,
                   errors, formData, formSkills, formRequests, projectSkills, nonFormVars>>

\* newErrors of validateForm
validateForm(data) ==
    {field \in {"name", "client_id", "team_size", "end_date"} :
        \/ field = "name" /\ data.name = ""
        \/ field = "client_id" /\ data.client_id = ""
        \/ field = "team_size" /\ data.team_size < 1
        \/ field = "end_date" /\ data.dates = "reversed"}

\* handleSubmit of the form up to its await, or to its return when the form
\* is invalid; the submit button is disabled while submitting
formHandleSubmit ==
    /\ FormShown
    /\ ~submitting
    /\ errors' = validateForm(formData)
    /\ IF errors' # {}
       THEN UNCHANGED <<submitting, formError, formRequests>>
       ELSE /\ submitting' = TRUE
            /\ formError' = ""
            /\ formRequests' = formRequests \cup
                  {[kind |-> "save",
                    method |-> IF isEditMode THEN "PUT" ELSE "POST",
                    skill_ids |-> selectedSkills]}
    /\ UNCHANGED <<location, isEditMode, formMounted, formLoading, formData, formSkills,
                   selectedSkills, projectSkills, untouched, nonFormVars>>

\* the save request is answered: navigate to the project, or show the error
SaveResponds ==
    \E req \in formRequests, ok \in BOOLEAN :
        /\ req.kind = "save"
        /\ formRequests' = formRequests \ {req}
        /\ submitting' = FALSE
        /\ IF ok
           THEN /\ location' = ProjectDetailPath
                /\ projectSkills' =
                      {[name |-> SkillName(sel.skill_id),
                        importance_level |-> sel.importance_level] : sel \in req.skill_ids}
                /\ UNCHANGED formError
           ELSE /\ formError' = IF isEditMode THEN "update_failed"
                                ELSE "create_failed"
                /\ UNCHANGED <<location, projectSkills>>
        /\ UNCHANGED <<isEditMode, formMounted, formLoading, errors, formData, formSkills,
                       selectedSkills, untouched, nonFormVars>>

NextForm ==
    \/ FormMount
    \/ fetchClients
    \/ fetchSkills
    \/ fetchProject
    \/ EditField
    \/ \E skillId \in SkillMaster : handleSkillToggle(skillId)
    \/ \E skillId \in SkillMaster, importance \in ImportanceChosen :
          handleSkillImportanceChange(skillId, importance)
    \/ formHandleSubmit
    \/ SaveResponds

\* ProjectForm before its mount effect, opened by any user for a new project
\* or for a stored one
InitForm ==
    /\ user \in Roles /\ location = FormPath /\ mounted = FALSE
    /\ loading = FALSE /\ matchingResult = None /\ weights = InitialWeights
    /\ request = None /\ pool = {} /\ totalSign = "none" /\ moved = FALSE
    /\ probe = None
    /\ ProfileIdle
    /\ AuthLoaded
    /\ EmployeesIdle
    /\ isEditMode \in BOOLEAN
    /\ formMounted = FALSE
    /\ formLoading = TRUE
    /\ formError = ""
    /\ submitting = FALSE
    /\ errors = {}
    /\ formData = EmptyForm
    /\ formSkills = {}
    /\ selectedSkills = {}
    /\ formRequests = {}
    /\ projectSkills \in (IF isEditMode THEN RequiredSkillSets ELSE {{}})
    /\ untouched = TRUE
    /\ projectLoaded = FALSE
    /\ OtherPagesIdle

SpecForm == InitForm /\ [][NextForm]_vars

\* C23: once ProjectForm is mounted for a user who is neither admin nor
\* manager, the access-denied error is shown, loading is false and no request
\* of the form is in flight
C23_FormAccess ==
    (formMounted /\ user \notin {"admin", "manager"}) =>
        /\ formError = AccessDenied
        /\ formLoading = FALSE
        /\ formRequests = {}
        /\ location = FormPath

C23_Witness ==
    /\ formMounted
    /\ user \in {"employee", NoUser}
    /\ isEditMode
    /\ projectSkills # {}


\* the skill-master entries of the project's required skills, by name
RequiredSelection == SkillsMap(projectSkills, SkillMaster)

\* C27: in edit mode, once the project is loaded and loading has finished,
\* selectedSkills holds exactly the project's required skills with their
\* importance levels until the skill section is used, and a submit sends them
C27_EditRoundTrip ==
    (location = FormPath /\ isEditMode /\ projectLoaded /\ ~formLoading /\ untouched) =>
        /\ selectedSkills = RequiredSelection
        /\ \A req \in formRequests :
              req.kind = "save" => req.skill_ids = RequiredSelection

----------------------------------------------------------------------------
(* Employees.tsx: the add-employee modal *)

\* longest password typed into the modal
MaxPasswordLen == 6

\* employees the backend creates at most
MaxRegistered == 1

\* the length a password needs
MinPasswordLength == 6

\* the status of the answer to a POST with an email already registered
BadRequest == 400

EmployeesPath == "/employees"

\* n times the character c
Repeat(c, n) == [k \in 1..n |-> c]

\* the texts typed into the name and the email input: nothing, a space, a letter
Names == {<<>>, <<" ">>, <<"a">>}

\* the texts typed into the password input: spaces only, letters only, and
\* letters between two spaces
Passwords ==
    UNION {{Repeat(" ", n), Repeat("a", n)} : n \in 0..MaxPasswordLen}
        \cup {<<" ">> \o Repeat("a", n - 2) \o <<" ">> : n \in 2..MaxPasswordLen}

\* String.prototype.trim for texts of spaces and letters
RECURSIVE TrimStart(_)
TrimStart(text) ==
    IF text = <<>> THEN <<>>
    ELSE IF Head(text) = " " THEN TrimStart(Tail(text))
    ELSE text

RECURSIVE TrimEnd(_)
TrimEnd(text) ==
    IF text = <<>> THEN <<>>
    ELSE IF text[Len(text)] = " " THEN TrimEnd(SubSeq(text, 1, Len(text) - 1))
    ELSE text

Trim(text) == TrimEnd(TrimStart(text))

FieldError(field, message) == [field |-> field, message |-> message]

\* the object `errors` of the submit handler
Validate_NoLengthCheck(data) ==
    (IF Trim(data.name) = <<>> THEN {FieldError("name", "required")} ELSE {})
    \cup (IF Trim(data.email) = <<>> THEN {FieldError("email", "required")} ELSE {})
    \cup (IF Trim(data.password) = <<>> THEN {FieldError("password", "required")}
          ELSE {})

Validate(data) ==
    (IF Trim(data.name) = <<>> THEN {FieldError("name", "required")} ELSE {})
    \cup (IF Trim(data.email) = <<>> THEN {FieldError("email", "required")} ELSE {})
    \cup (IF Trim(data.password) = <<>> THEN {FieldError("password", "required")}
          ELSE IF Len(data.password) < MinPasswordLength
          THEN {FieldError("password", "too_short")}
          ELSE {})

isAdmin == user = "admin"

\* the response of GET /employees/ once employees were created
StaffNow == Staff \cup {MaxStaff + k : k \in 1..registered}

\* the state outside the add-employee modal and the list behind it
nonAddVars == <<pageVars, probe, profileVars, authVars, formPageVars, selectedSkillIds,
                employeeRequests, requestFailed, toggles, skillsPageVars, detailVars,
                candidateVars>>

\* the add button, shown to an admin
openAddModal ==
    /\ location = EmployeesPath
    /\ isAdmin
    /\ ~showAddModal
    /\ showAddModal' = TRUE
    /\ UNCHANGED <<addFormData, formErrors, addSubmitting, addCall, registered,
                   addOutcome, employees, employeesLoading, nonAddVars>>

\* the close button and the cancel button of the modal
closeAddModal ==
    /\ showAddModal
    /\ showAddModal' = FALSE
    /\ addFormData' = EmptyAddForm
    /\ formErrors' = {}
    /\ UNCHANGED <<addSubmitting, addCall, registered, addOutcome, employees,
                   employeesLoading, nonAddVars>>

\* an input of the modal is changed
setAddFormData(field, text) ==
    /\ showAddModal
    /\ addFormData[field] # text
    /\ addFormData' = [addFormData EXCEPT ![field] = text]
    /\ UNCHANGED <<showAddModal, formErrors, addSubmitting, addCall, registered,
                   addOutcome, employees, employeesLoading, nonAddVars>>

\* the submit handler of the modal's form up to its return or its first
\* await; the submit button is disabled while submitting
addHandleSubmit ==
    /\ showAddModal
    /\ ~addSubmitting
    /\ registered < MaxRegistered
    /\ IF Validate(addFormData) # {}
       THEN /\ formErrors' = Validate(addFormData)
            /\ UNCHANGED <<addSubmitting, addCall>>
       ELSE /\ addSubmitting' = TRUE
            /\ formErrors' = {}
            /\ addCall' = "post"
    /\ UNCHANGED <<showAddModal, addFormData, registered, employees, employeesLoading,
                   nonAddVars>>
    /\ addOutcome' = [data |-> addFormData,
                      formErrors |-> formErrors',
                      posted |-> (addCall' = "post"),
                      showAddModal |-> showAddModal',
                      listKept |-> (employees' = employees)]

\* POST /employees/ is answered: fetchEmployees is called, or the catch sets
\* the error of the status
PostAnswered ==
    \E error \in {None, [status |-> BadRequest], [status |-> ServerError]} :
        /\ addCall = "post"
        /\ IF error = None
           THEN /\ registered' = registered + 1
                /\ addCall' = "fetch"
                /\ UNCHANGED <<formErrors, addSubmitting>>
           ELSE /\ formErrors' = IF error.status = BadRequest
                                 THEN {FieldError("email", "duplicate")}
                                 ELSE {FieldError("general", "failed")}
                /\ addSubmitting' = FALSE
                /\ addCall' = "idle"
                /\ UNCHANGED registered
        /\ UNCHANGED <<showAddModal, addFormData, addOutcome, employees,
                       employeesLoading, nonAddVars>>

\* the GET /employees/ of fetchEmployees is answered and the handler closes
\* the modal
ListAnswered ==
    \E ok \in BOOLEAN :
        /\ addCall = "fetch"
        /\ employees' = IF ok THEN StaffNow ELSE employees
        /\ employeesLoading' = FALSE
        /\ showAddModal' = FALSE
        /\ addFormData' = EmptyAddForm
        /\ addSubmitting' = FALSE
        /\ addCall' = "idle"
        /\ UNCHANGED <<formErrors, registered, addOutcome, nonAddVars>>

NextAddEmployee ==
    \/ openAddModal
    \/ closeAddModal
    \/ \E field \in {"name", "email"}, text \in Names : setAddFormData(field, text)
    \/ \E text \in Passwords : setAddFormData("password", text)
    \/ addHandleSubmit
    \/ PostAnswered
    \/ ListAnswered

\* the Employees page with its list loaded, opened by any user
InitAddEmployee ==
    /\ user \in Roles /\ location = EmployeesPath /\ mounted = FALSE
    /\ loading = FALSE /\ matchingResult = None /\ weights = InitialWeights
    /\ request = None /\ pool = {} /\ totalSign = "none" /\ moved = FALSE
    /\ probe = None
    /\ ProfileIdle
    /\ AuthLoaded
    /\ employees = Staff
    /\ selectedSkillIds = <<>>
    /\ employeesLoading = FALSE
    /\ employeeRequests = <<>>
    /\ requestFailed = FALSE
    /\ toggles = <<>>
    /\ FormIdle
    /\ OtherPagesIdle

SpecAddEmployee == InitAddEmployee /\ [][NextAddEmployee]_vars

HasError(outcome, field, message) == FieldError(field, message) \in outcome.formErrors

\* C24: a submit of the add-employee form with a blank name, a blank email, a
\* blank password or a password shorter than 6 characters sets the error of
\* each such field, issues no POST and leaves the modal open and the list
\* unchanged; a POST is issued exactly when all four checks pass
C24_AddEmployeeValidation ==
    addOutcome # None =>
        LET data == addOutcome.data
            blankName == \A k \in 1..Len(data.name) : data.name[k] = " "
            blankEmail == \A k \in 1..Len(data.email) : data.email[k] = " "
            blankPassword == \A k \in 1..Len(data.password) : data.password[k] = " "
            shortPassword == ~blankPassword /\ Len(data.password) < 6
            rejected == blankName \/ blankEmail \/ blankPassword \/ shortPassword
        IN  /\ addOutcome.posted <=> ~rejected
            /\ HasError(addOutcome, "name", "required") <=> blankName
            /\ HasError(addOutcome, "email", "required") <=> blankEmail
            /\ HasError(addOutcome, "password", "required") <=> blankPassword
            /\ HasError(addOutcome, "password", "too_short") <=> shortPassword
            /\ rejected => (addOutcome.showAddModal /\ addOutcome.listKept)

\* a submit was refused for its short password alone, and another was posted
C24_Witness ==
    /\ addOutcome # None
    /\ addOutcome.formErrors = {FieldError("password", "too_short")}
    /\ ~addOutcome.posted
    /\ addOutcome.showAddModal

C24_WitnessPosted ==
    /\ addOutcome # None
    /\ addOutcome.posted
    /\ registered = 1

----------------------------------------------------------------------------
(* Skills page: deleting a skill *)

\* number of skills the backend holds when the page opens
MaxSkillRows == 2

\* largest number of handler calls of the Skills page in flight at once
MaxSkillCalls == 2

SkillsPath == "/skills"

SkillRows == 1..MaxSkillRows

\* the message of the alert in the catch of handleDeleteSkill, by its meaning
DeleteFailed == "delete_failed"

\* the state outside the Skills page
nonSkillsVars == <<pageVars, probe, profileVars, authVars, employeesVars, formPageVars,
                   addVars, detailVars, candidateVars>>

\* a call of the page waiting for the response of its request, with the
\* answer confirm() gave before it
SkillCall(op, skillId, awaits, answer) ==
    [op |-> op, skillId |-> skillId, awaits |-> awaits, answer |-> answer]

SkillCallsWithout(i) ==
    [k \in 1..(Len(skillCalls) - 1) |->
        IF k < i THEN skillCalls[k] ELSE skillCalls[k + 1]]

\* the check of handleDeleteSkill before its request
Confirmed_Always(answer) == TRUE

Confirmed(answer) == answer

\* the delete button of a listed skill, shown to an admin: handleDeleteSkill
\* up to its return or its await, with the answer given to confirm()
handleDeleteSkill(skillId, answer) ==
    /\ location = SkillsPath
    /\ isAdmin
    /\ ~skillsLoading
    /\ skillId \in skillList
    /\ Len(skillCalls) < MaxSkillCalls
    /\ skillCalls' = IF Confirmed(answer)
                     THEN Append(skillCalls,
                                 SkillCall("delete", skillId, "delete", answer))
                     ELSE skillCalls
    /\ UNCHANGED <<skillList, skillsLoading, skillStore, alertShown, nonSkillsVars>>
    /\ deleteOutcome' = [event |-> "asked", skillId |-> skillId, answer |-> answer,
                         issued |-> (skillCalls' # skillCalls),
                         listKept |-> (skillList' = skillList),
                         alertShown |-> alertShown']

\* DELETE /skills/{id} succeeds: the backend drops the skill and the handler
\* calls fetchSkills
DeleteSucceeds ==
    \E i \in 1..Len(skillCalls) :
        /\ skillCalls[i].awaits = "delete"
        /\ skillStore' = skillStore \ {skillCalls[i].skillId}
        /\ skillCalls' = [skillCalls EXCEPT ![i].awaits = "skills"]
        /\ UNCHANGED <<skillList, skillsLoading, alertShown, deleteOutcome,
                       nonSkillsVars>>

\* DELETE /skills/{id} fails: the catch logs and alerts
DeleteFails ==
    \E i \in 1..Len(skillCalls) :
        /\ skillCalls[i].awaits = "delete"
        /\ alertShown' = DeleteFailed
        /\ skillCalls' = SkillCallsWithout(i)
        /\ UNCHANGED <<skillList, skillsLoading, skillStore, nonSkillsVars>>
        /\ deleteOutcome' = [event |-> "failed", skillId |-> skillCalls[i].skillId,
                             answer |-> TRUE,
                             issued |-> FALSE,
                             listKept |-> (skillList' = skillList),
                             alertShown |-> alertShown']

\* fetchSkills after its await: the list is stored, or the catch logs
SkillsAnswered ==
    \E i \in 1..Len(skillCalls), ok \in BOOLEAN :
        /\ skillCalls[i].awaits = "skills"
        /\ skillList' = IF ok THEN skillStore ELSE skillList
        /\ skillsLoading' = FALSE
        /\ skillCalls' = SkillCallsWithout(i)
        /\ UNCHANGED <<skillStore, alertShown, deleteOutcome, nonSkillsVars>>

NextSkills ==
    \/ \E skillId \in SkillRows, answer \in BOOLEAN : handleDeleteSkill(skillId, answer)
    \/ DeleteSucceeds
    \/ DeleteFails
    \/ SkillsAnswered

\* the Skills page after its first render: the mount effect has called
\* fetchSkills
InitSkills ==
    /\ user \in Roles /\ location = SkillsPath /\ mounted = FALSE
    /\ loading = FALSE /\ matchingResult = None /\ weights = InitialWeights
    /\ request = None /\ pool = {} /\ totalSign = "none" /\ moved = FALSE
    /\ probe = None
    /\ ProfileIdle
    /\ AuthLoaded
    /\ EmployeesIdle
    /\ FormIdle
    /\ AddIdle
    /\ DetailIdle
    /\ CandidatesIdle
    /\ skillList = {}
    /\ skillsLoading = TRUE
    /\ skillStore = SkillRows
    /\ skillCalls = <<SkillCall("mount", 0, "skills", TRUE)>>
    /\ alertShown = ""
    /\ deleteOutcome = None

SpecSkills == InitSkills /\ [][NextSkills]_vars

\* C25: handleDeleteSkill issues DELETE /skills/{id} exactly when confirm() was
\* accepted; a declined confirm sends nothing and keeps the list; a failed
\* DELETE keeps the list and shows the error alert
C25_DeleteNeedsConfirm ==
    /\ \A i \in 1..Len(skillCalls) :
          skillCalls[i].op = "delete" => skillCalls[i].answer
    /\ deleteOutcome # None =>
          /\ deleteOutcome.event = "asked" =>
                /\ deleteOutcome.issued <=> deleteOutcome.answer
                /\ deleteOutcome.listKept
          /\ deleteOutcome.event = "failed" =>
                /\ deleteOutcome.listKept
                /\ deleteOutcome.alertShown = DeleteFailed

\* the confirm was declined for a listed skill, and a DELETE has failed
C25_Witness ==
    /\ deleteOutcome # None
    /\ deleteOutcome.event = "asked"
    /\ ~deleteOutcome.answer
    /\ alertShown = DeleteFailed

----------------------------------------------------------------------------
(* ProjectDetail: adding and removing members *)

\* members the project has when the page has loaded it
MaxInitialMembers == 1

\* employees listed by GET /employees/
MaxDetailStaff == 2

\* members the backend creates at most
MaxAdded == 2

\* largest number of member requests in flight at once
MaxMemberCalls == 2

DetailStaff == 1..MaxDetailStaff

Member(id, employee_id) == [id |-> id, employee_id |-> employee_id]

\* project.members of the response of GET /projects/{id}
InitialMembers == {Member(k, k) : k \in 1..MaxInitialMembers}

canEditProject == user = "admin" \/ user = "manager"

\* the state outside ProjectDetail
nonDetailVars == <<pageVars, probe, profileVars, authVars, employeesVars, formPageVars,
                   addVars, skillsPageVars, candidateVars>>

\* the employees the select of the dialog offers
OfferedEmployees == {emp \in DetailStaff : \A m \in members : m.employee_id # emp}

MemberCallsWithout(i) ==
    [k \in 1..(Len(memberCalls) - 1) |->
        IF k < i THEN memberCalls[k] ELSE memberCalls[k + 1]]

\* the button that opens the dialog
openAddMemberDialog ==
    /\ location = ProjectDetailPath
    /\ canEditProject
    /\ ~showAddMemberDialog
    /\ showAddMemberDialog' = TRUE
    /\ UNCHANGED <<members, memberStore, memberCalls, newMember, nextMemberId, memberOps,
                   nonDetailVars>>

\* the cancel button of the dialog, or a click outside it
closeAddMemberDialog ==
    /\ showAddMemberDialog
    /\ showAddMemberDialog' = FALSE
    /\ UNCHANGED <<members, memberStore, memberCalls, newMember, nextMemberId, memberOps,
                   nonDetailVars>>

\* an employee is picked in the select of the dialog
setNewMember(employee_id) ==
    /\ showAddMemberDialog
    /\ employee_id \in OfferedEmployees
    /\ newMember # employee_id
    /\ newMember' = employee_id
    /\ UNCHANGED <<members, memberStore, memberCalls, showAddMemberDialog, nextMemberId,
                   memberOps, nonDetailVars>>

\* members: [...project.members, response.data]
AfterAdd(project, member) == project \cup {member}

\* members: project.members.filter((m) => m.id !== memberId)
AfterRemove(project, memberId) == {m \in project : m.id # memberId}

\* handleAddMember up to its await; it keeps the project of its render
handleAddMember ==
    /\ showAddMemberDialog
    /\ newMember # 0
    /\ Len(memberCalls) < MaxMemberCalls
    /\ nextMemberId + Len(memberCalls) <= MaxInitialMembers + MaxAdded
    /\ memberCalls' = Append(memberCalls,
                             [op |-> "add", employee_id |-> newMember, project |-> members])
    /\ UNCHANGED <<members, memberStore, showAddMemberDialog, newMember, nextMemberId,
                   memberOps, nonDetailVars>>

\* the remove button of a member, behind the dialog when that is open:
\* handleRemoveMember up to its return or its await
handleRemoveMember(memberId, answer) ==
    /\ location = ProjectDetailPath
    /\ canEditProject
    /\ ~showAddMemberDialog
    /\ \E m \in members : m.id = memberId
    /\ Len(memberCalls) < MaxMemberCalls
    /\ memberCalls' = IF answer
                      THEN Append(memberCalls,
                                  [op |-> "remove", memberId |-> memberId,
                                   project |-> members])
                      ELSE memberCalls
    /\ UNCHANGED <<members, memberStore, showAddMemberDialog, newMember, nextMemberId,
                   memberOps, nonDetailVars>>

\* the POST of handleAddMember is answered: the member is stored and added to
\* the project the handler kept, or the catch alerts. A POST for an employee
\* who is stored as a member already is answered with an error, and so is a
\* DELETE of a member no longer stored: the page is given no behaviour that
\* rests on the backend accepting them
AddAnswered ==
    \E i \in 1..Len(memberCalls), ok \in BOOLEAN :
        LET call == memberCalls[i]
            member == Member(nextMemberId, call.employee_id)
        IN  /\ call.op = "add"
            /\ ok => \A m \in memberStore : m.employee_id # call.employee_id
            /\ memberCalls' = MemberCallsWithout(i)
            /\ IF ok
               THEN /\ memberStore' = memberStore \cup {member}
                    /\ nextMemberId' = nextMemberId + 1
                    /\ members' = AfterAdd(call.project, member)
                    /\ showAddMemberDialog' = FALSE
                    /\ newMember' = 0
                    /\ memberOps' = [memberOps EXCEPT !.added = @ \cup {member}]
               ELSE /\ memberOps' = [memberOps EXCEPT !.failed = TRUE]
                    /\ UNCHANGED <<memberStore, nextMemberId, members,
                                   showAddMemberDialog, newMember>>
            /\ UNCHANGED nonDetailVars

\* the DELETE of handleRemoveMember is answered: the member is dropped from
\* the store and from the project the handler kept, or the catch alerts
RemoveAnswered ==
    \E i \in 1..Len(memberCalls), ok \in BOOLEAN :
        LET call == memberCalls[i]
        IN  /\ call.op = "remove"
            /\ ok => \E m \in memberStore : m.id = call.memberId
            /\ memberCalls' = MemberCallsWithout(i)
            /\ IF ok
               THEN /\ memberStore' = {m \in memberStore : m.id # call.memberId}
                    /\ members' = AfterRemove(call.project, call.memberId)
                    /\ memberOps' = [memberOps EXCEPT !.removed = @ \cup {call.memberId}]
               ELSE /\ memberOps' = [memberOps EXCEPT !.failed = TRUE]
                    /\ UNCHANGED <<memberStore, members>>
            /\ UNCHANGED <<showAddMemberDialog, newMember, nextMemberId, nonDetailVars>>

NextDetail ==
    \/ openAddMemberDialog
    \/ closeAddMemberDialog
    \/ \E employee_id \in DetailStaff : setNewMember(employee_id)
    \/ handleAddMember
    \/ \E memberId \in 1..(MaxInitialMembers + MaxAdded), answer \in BOOLEAN :
          handleRemoveMember(memberId, answer)
    \/ AddAnswered
    \/ RemoveAnswered

\* ProjectDetail once the project and the employees are loaded, opened by any
\* user
InitDetail ==
    /\ user \in Roles /\ location = ProjectDetailPath /\ mounted = FALSE
    /\ loading = FALSE /\ matchingResult = None /\ weights = InitialWeights
    /\ request = None /\ pool = {} /\ totalSign = "none" /\ moved = FALSE
    /\ probe = None
    /\ ProfileIdle
    /\ AuthLoaded
    /\ EmployeesIdle
    /\ FormIdle
    /\ AddIdle
    /\ SkillsIdle
    /\ CandidatesIdle
    /\ members = InitialMembers
    /\ memberStore = InitialMembers
    /\ memberCalls = <<>>
    /\ showAddMemberDialog = FALSE
    /\ newMember = 0
    /\ nextMemberId = MaxInitialMembers + 1
    /\ memberOps = [added |-> {}, removed |-> {}, failed |-> FALSE]

SpecDetail == InitDetail /\ [][NextDetail]_vars

\* C28: once every add-member and remove-member request has been answered
\* with success, the local members list is the loaded list plus the members
\* added minus the members removed, and no employee is in it twice
C28_NoLostMemberUpdates ==
    (memberCalls = <<>> /\ ~memberOps.failed) =>
        /\ members = {m \in InitialMembers \cup memberOps.added :
                         m.id \notin memberOps.removed}
        /\ \A m1, m2 \in members : m1.employee_id = m2.employee_id => m1 = m2

----------------------------------------------------------------------------
(* ProjectMatching.tsx: adding the selected candidates to the project *)

\* largest number of handleAddSelectedMembers calls in flight at once
MaxSelectionCalls == 1

\* the employees of the recommendations on screen
ShownCandidates ==
    IF matchingResult = None THEN {}
    ELSE {rec.employee : rec \in ResultCandidates(matchingResult)}

\* the state outside the selection, but for the location
nonCandidateVars == <<user, mounted, loading, matchingResult, weights, request, pool,
                      totalSign, moved, probe, profileVars, authVars, employeesVars,
                      formPageVars, addVars, skillsPageVars, detailVars>>

SelectionCallsWithout(i) ==
    [k \in 1..(Len(selectionCalls) - 1) |->
        IF k < i THEN selectionCalls[k] ELSE selectionCalls[k + 1]]

\* the select button of a recommendation card
toggleEmployeeSelection(employeeId) ==
    /\ Displayed
    /\ employeeId \in ShownCandidates
    /\ selectedEmployees' =
          IF employeeId \in Elems(selectedEmployees)
          THEN FilterOut(selectedEmployees, employeeId)
          ELSE Append(selectedEmployees, employeeId)
    /\ UNCHANGED <<location, selectionCalls, projectMembers, selectionOutcome,
                   nonCandidateVars>>

\* the first check of handleAddSelectedMembers
NothingSelected_Never(selection) == FALSE

NothingSelected(selection) == Len(selection) = 0

\* the employees a call has posted with success before its POST number `posted`
PostedBefore(selection, posted) == {selection[k] : k \in 1..(posted - 1)}

\* how a call returned: the size of its selection, the POSTs it issued, what
\* its last step left as it was, and which of its employees are members then
Returned(event, selection, posted) ==
    [event |-> event, size |-> Len(selection), posted |-> posted,
     distinct |-> NoDuplicates(selection),
     locationKept |-> (location' = location),
     selectionKept |-> (selectedEmployees' = selectedEmployees),
     membersKept |-> (projectMembers' = projectMembers),
     earlierAdded |-> (PostedBefore(selection, posted) \subseteq projectMembers'),
     allAdded |-> (Elems(selection) \subseteq projectMembers')]

\* handleAddSelectedMembers up to its return or its first await. Its button
\* is rendered for a non-empty selection only; the handler itself can be
\* called with any selection
handleAddSelectedMembers ==
    /\ Displayed
    /\ Len(selectionCalls) < MaxSelectionCalls
    /\ UNCHANGED <<location, selectedEmployees, projectMembers, nonCandidateVars>>
    /\ IF NothingSelected(selectedEmployees)
       THEN /\ UNCHANGED selectionCalls
            /\ selectionOutcome' = Returned("empty", selectedEmployees, 0)
       ELSE /\ selectionCalls' = Append(selectionCalls,
                                        [selection |-> selectedEmployees, index |-> 1])
            /\ UNCHANGED selectionOutcome

\* the POST in flight of a call succeeds: the next employee of the selection
\* is posted, or after the last one the handler alerts and navigates
PostSucceeds ==
    \E i \in 1..Len(selectionCalls) :
        LET call == selectionCalls[i]
        IN  /\ projectMembers' = projectMembers \cup {call.selection[call.index]}
            /\ UNCHANGED <<selectedEmployees, nonCandidateVars>>
            /\ IF call.index < Len(call.selection)
               THEN /\ selectionCalls' = [selectionCalls EXCEPT ![i].index = @ + 1]
                    /\ UNCHANGED <<location, selectionOutcome>>
               ELSE /\ selectionCalls' = SelectionCallsWithout(i)
                    /\ location' = ProjectDetailPath
                    /\ selectionOutcome' =
                          Returned("navigated", call.selection, call.index)

\* the POST in flight of a call fails: the catch logs and alerts
PostFails ==
    \E i \in 1..Len(selectionCalls) :
        LET call == selectionCalls[i]
        IN  /\ selectionCalls' = SelectionCallsWithout(i)
            /\ UNCHANGED <<location, selectedEmployees, projectMembers, nonCandidateVars>>
            /\ selectionOutcome' = Returned("failed", call.selection, call.index)

NextCandidates ==
    \/ \E employeeId \in Employees : toggleEmployeeSelection(employeeId)
    \/ handleAddSelectedMembers
    \/ PostSucceeds
    \/ PostFails

\* the matching page of an admin or a manager with the result of its first run
\* on screen
InitCandidates ==
    /\ user \in {"admin", "manager"} /\ location = MatchingPath /\ mounted = TRUE
    /\ loading = FALSE /\ weights = InitialWeights
    /\ pool \in CandidatePools
    /\ matchingResult = RunEngine(Project, pool, MatchQuery(InitialWeights))
    /\ request = None /\ totalSign = "none" /\ moved = FALSE
    /\ probe = None
    /\ ProfileIdle
    /\ AuthLoaded
    /\ EmployeesIdle
    /\ FormIdle
    /\ OtherPagesIdle

SpecCandidates == InitCandidates /\ [][NextCandidates]_vars

C29_WitnessEmpty ==
    /\ selectionOutcome # None
    /\ selectionOutcome.event = "empty"
    /\ projectMembers # {}

====
